---- MODULE Spec2Model ----
(***************************************************************************)
(* KASHPOS: the record store (tables products and sales), the Sales page   *)
(* (cart, checkout, transaction numbers), the Reports page (grouping,      *)
(* archive) and the Earnings page (rollups, break-even, range chart).      *)
(* Money is counted in whole units; time is counted in ticks, TicksPerDay  *)
(* ticks to a local day and DaysPerMonth days to a calendar month.         *)
(***************************************************************************)
EXTENDS Integers, Sequences, FiniteSets, TLC

VARIABLES
  tblProducts,           \* table products: id -> [qty, cost, selling_price]
  tblSales,              \* table sales: a set of rows
  nextUuid,              \* source of fresh uuids (row ids, transaction ids)
  clock,                 \* the current instant, in ticks
  tzWest,                \* TRUE when local time is behind UTC
  storeFaults,           \* TRUE when calls to the store may fail
  initialStock,          \* history: each product's stock at the start
  issued,                \* history: the transaction numbers inserted, in order
  loading,               \* SalesPage: loading, per terminal
  products,              \* SalesPage: products state, per terminal
  fetchPending,          \* SalesPage: a fetchData request is in flight
  cart,                  \* SalesPage: cart, per terminal
  selectedPaymentMethod,
  selectedCustomerType,
  selectedDineInTakeout,
  customerPayment,
  isCheckingOut,
  selectedProduct,
  editingCartItem,
  checkout,              \* handleCheckout's position and locals, per terminal
  lastEvent,             \* the outcome of the last handleCheckout or handleAddToCart
  reportDates,           \* ReportsPage: startDate and endDate, as days
  reportSales,           \* ReportsPage: sales, the normalized lines of the last fetch
  transactions,          \* ReportsPage: transactions, the groups shown
  selectedTransactions,  \* ReportsPage: the ids of the transactions ticked
  reportFetch,           \* ReportsPage: a fetchSales request is in flight
  archiveRun,            \* ReportsPage: handleArchive's position and the ids its delete names
  download,              \* the CSV file last downloaded by handleArchive
  archiveOutcomes,       \* history: the failures of handleArchive, each with its toast
  tblOpex,               \* table opex: the monthly_cost of each item
  viewMode,              \* EarningsPage: "today" or "range"
  earningsDates,         \* EarningsPage: startDate and endDate, as days
  earningsSales,         \* EarningsPage: sales, the lines displayed
  totalMonthlyOpex,      \* EarningsPage
  monthlyGrossMargin,    \* EarningsPage
  breakEvenDate,         \* EarningsPage: an instant, or NoInstant for null
  opexFetch,             \* EarningsPage: a fetchOpexData request is in flight
  monthlyFetch,          \* EarningsPage: the fetchMonthlySales requests in flight, each
                         \*   with the totalMonthlyOpex its closure holds
  earningsFetch,         \* EarningsPage: the fetchSales requests in flight, each with
                         \*   the viewMode and dates its closure holds
  earningsMounted,       \* EarningsPage: the component is mounted
  timers,                \* the intervals set by the EarningsPage effect and not cleared
  effectInterval,        \* EarningsPage: the interval held by the last run of the effect
  recentSales,           \* NotificationContext: the sales registered as recent
  user,                  \* AuthContext: user
  storedUser,            \* localStorage: kashpos_user
  activePage             \* Dashboard: activePage

storeVars == <<tblProducts, tblSales, nextUuid>>
formVars == <<selectedPaymentMethod, selectedCustomerType, selectedDineInTakeout,
              customerPayment>>
modalVars == <<selectedProduct, editingCartItem>>
salesPageVars == <<loading, products, fetchPending, cart, formVars, isCheckingOut,
                   modalVars, checkout>>
envVars == <<tzWest, storeFaults, initialStock>>
archiveVars == <<archiveRun, download, archiveOutcomes>>
reportsVars == <<reportDates, reportSales, transactions, selectedTransactions, reportFetch,
                 archiveVars>>
pollVars == <<earningsMounted, timers, effectInterval>>
earningsVars == <<tblOpex, viewMode, earningsDates, earningsSales, totalMonthlyOpex,
                  monthlyGrossMargin, breakEvenDate, opexFetch, monthlyFetch, earningsFetch,
                  pollVars>>
dashVars == <<user, storedUser, activePage>>
appVars == <<recentSales, dashVars>>
otherPages == <<reportsVars, earningsVars, dashVars>>
vars == <<storeVars, clock, envVars, issued, salesPageVars, lastEvent, otherPages, recentSales>>

---------------------------------------------------------------------------
(* Bounds of the model *)
MaxClock == 1
MaxUuid == 4
MaxStock == 2
MaxQty == 3
TicksPerDay == 2
DaysPerMonth == 3
MaxTimers == 2
MaxProducts == 1

(* Program constants *)
PadWidth == 5

Terminals == {"t1", "t2"}
NULL == "null"
PaymentMethods == {"Cash"}
ProductIds == {"p1", "p2"}
CustomerTypes == {"Regular"}
OrderTypes == {"dine_in"}

\* table settings as the schema seeds it; no page of the sources writes or reads it
DefaultSettings == [dine_in_takeout_enabled |-> "false"]
dineInTakeoutEnabled == DefaultSettings.dine_in_takeout_enabled = "true"
PayInFull == 20
Payments == {0, PayInFull}

NoNumber == [ym |-> -1, digits |-> <<>>]
NoProduct == [id |-> NULL, qty |-> 0, cost |-> 0, selling_price |-> 0]
NoItem == [product |-> NoProduct, quantity |-> 0]
IdleCheckout ==
  [pc |-> "idle", cart |-> <<>>, transactionId |-> 0, transactionNumber |-> NoNumber,
   saleRecords |-> <<>>, saleData |-> <<>>, idx |-> 0]

Max(a, b) == IF a >= b THEN a ELSE b
Min(a, b) == IF a <= b THEN a ELSE b

DayOf(ts) == ts \div TicksPerDay
MonthOfDay(d) == d \div DaysPerMonth
MonthOf(ts) == MonthOfDay(DayOf(ts))

RECURSIVE SumSeq(_)
SumSeq(s) == IF s = <<>> THEN 0 ELSE Head(s) + SumSeq(Tail(s))

---------------------------------------------------------------------------
(* Transaction numbers: YY-MM-SSSSS, kept as the month and the suffix's    *)
(* characters (0..9 are the digits, anything above is another character).  *)

RECURSIVE NumToString(_)
NumToString(n) == IF n < 10 THEN <<n>> ELSE Append(NumToString(n \div 10), n % 10)

RECURSIVE PadStart(_, _)
PadStart(s, w) == IF Len(s) >= w THEN s ELSE PadStart(<<0>> \o s, w)

RECURSIVE ParseDigits(_, _)
ParseDigits(s, acc) ==
  IF s = <<>> \/ Head(s) > 9 THEN acc ELSE ParseDigits(Tail(s), 10 * acc + Head(s))

\* parseInt(s) || 0: the leading digits, 0 when there are none (NaN)
ParseIntOr0(s) == ParseDigits(s, 0)

\* text order of the store (ORDER BY transaction_number)
RECURSIVE StrLess(_, _)
StrLess(a, b) ==
  IF b = <<>> THEN FALSE
  ELSE IF a = <<>> THEN TRUE
  ELSE IF Head(a) # Head(b) THEN Head(a) < Head(b)
  ELSE StrLess(Tail(a), Tail(b))

\* .like(`${yearMonth}-%`).order(desc).limit(1): the rows' numbers under the prefix
NumbersLike(rows, yearMonth) ==
  {r.transaction_number.digits : r \in {x \in rows : x.transaction_number.ym = yearMonth}}

LatestNumber(rows, yearMonth) ==
  CHOOSE d \in NumbersLike(rows, yearMonth) :
    \A e \in NumbersLike(rows, yearMonth) : ~StrLess(d, e)

generateTransactionNumber(rows, now, queryOk) ==
  LET yearMonth == MonthOf(now)
      nextNum == IF queryOk /\ NumbersLike(rows, yearMonth) # {}
                 THEN ParseIntOr0(LatestNumber(rows, yearMonth)) + 1
                 ELSE 1
  IN [ym |-> yearMonth, digits |-> PadStart(NumToString(nextNum), PadWidth)]

---------------------------------------------------------------------------
(* SalesPage: derived values *)

\* a cart in which no product is ever found
CartIndexNeverFound(c, pid) == 0

CartIndex(c, pid) ==
  IF \E i \in 1..Len(c) : c[i].product.id = pid
  THEN CHOOSE i \in 1..Len(c) : c[i].product.id = pid /\ \A j \in 1..(i-1) : c[j].product.id # pid
  ELSE 0

getAvailableQuantity(t, product) ==
  LET i == CartIndex(cart[t], product.id)
      inCart == IF i > 0 THEN cart[t][i].quantity ELSE 0
  IN product.qty - inCart

CartTotal(c) == SumSeq([i \in 1..Len(c) |-> c[i].quantity * c[i].product.selling_price])
cartTotal(t) == CartTotal(cart[t])
paymentAmount(t) == customerPayment[t]

\* a checkout gate that forgets to compare the payment with the total
canCheckoutAnyPayment(t) ==
  /\ Len(cart[t]) > 0
  /\ selectedPaymentMethod[t] # ""
  /\ selectedCustomerType[t] # ""
  /\ selectedDineInTakeout[t] # NULL

canCheckout(t) ==
  /\ Len(cart[t]) > 0
  /\ selectedPaymentMethod[t] # ""
  /\ selectedCustomerType[t] # ""
  /\ selectedDineInTakeout[t] # NULL
  /\ paymentAmount(t) >= cartTotal(t)

\* a modal that lets any quantity through
MaxQuantityUnlimited(c, sel, edit) == MaxQty + 1

\* getMaxQuantity for the product and cart item the modal holds
MaxQuantity(c, sel, edit) ==
  IF edit # NoItem THEN edit.product.qty
  ELSE IF sel # NoProduct
       THEN sel.qty - (IF CartIndex(c, sel.id) > 0 THEN c[CartIndex(c, sel.id)].quantity ELSE 0)
       ELSE 0

getMaxQuantity(t) == MaxQuantity(cart[t], selectedProduct[t], editingCartItem[t])

Event(op, t, arg, result) == [op |-> op, t |-> t, arg |-> arg, result |-> result]
NoEvent == Event("", "", 0, "")
\* a refused handleAddToCart is remembered with the quantity asked for
AddEvent(t, qty, result) ==
  IF result = "ok" THEN NoEvent ELSE Event("handleAddToCart", t, qty, result)

---------------------------------------------------------------------------
(* SalesPage: handlers.  While a checkout is in flight (isCheckingOut) the *)
(* operator waits: the form, cart and modal handlers run between checkouts.*)

\* whether a call to the store succeeds
Answers == IF storeFaults THEN BOOLEAN ELSE {TRUE}

ModalClosed(t) == selectedProduct[t] = NoProduct /\ editingCartItem[t] = NoItem
Ready(t) == ~loading[t] /\ ~isCheckingOut[t]

\* the response of fetchData's products query
FetchDataReturn(t) ==
  /\ fetchPending[t]
  /\ \E ok \in Answers :
       /\ products' = [products EXCEPT ![t] =
             IF ok THEN [p \in DOMAIN tblProducts |->
                           [id |-> p, qty |-> tblProducts[p].qty, cost |-> tblProducts[p].cost,
                            selling_price |-> tblProducts[p].selling_price]]
             ELSE @]
       /\ lastEvent' = NoEvent
  /\ loading' = [loading EXCEPT ![t] = FALSE]
  /\ fetchPending' = [fetchPending EXCEPT ![t] = FALSE]
  /\ UNCHANGED <<storeVars, clock, envVars, issued, cart, formVars, isCheckingOut, modalVars, checkout>>
  /\ UNCHANGED <<otherPages, recentSales>>

setSelectedPaymentMethod(t, name) ==
  /\ Ready(t) /\ ModalClosed(t)
  /\ selectedPaymentMethod' = [selectedPaymentMethod EXCEPT ![t] = name]
  /\ lastEvent' = NoEvent
  /\ UNCHANGED <<storeVars, clock, envVars, issued, loading, products, fetchPending, cart,
                 selectedCustomerType, selectedDineInTakeout, customerPayment,
                 isCheckingOut, modalVars, checkout>>
  /\ UNCHANGED <<otherPages, recentSales>>

setSelectedCustomerType(t, name) ==
  /\ Ready(t) /\ ModalClosed(t)
  /\ selectedCustomerType' = [selectedCustomerType EXCEPT ![t] = name]
  /\ lastEvent' = NoEvent
  /\ UNCHANGED <<storeVars, clock, envVars, issued, loading, products, fetchPending, cart,
                 selectedPaymentMethod, selectedDineInTakeout, customerPayment,
                 isCheckingOut, modalVars, checkout>>
  /\ UNCHANGED <<otherPages, recentSales>>

setSelectedDineInTakeout(t, v) ==
  /\ Ready(t) /\ ModalClosed(t)
  /\ selectedDineInTakeout' = [selectedDineInTakeout EXCEPT ![t] = v]
  /\ lastEvent' = NoEvent
  /\ UNCHANGED <<storeVars, clock, envVars, issued, loading, products, fetchPending, cart,
                 selectedPaymentMethod, selectedCustomerType, customerPayment,
                 isCheckingOut, modalVars, checkout>>
  /\ UNCHANGED <<otherPages, recentSales>>

\* the amount typed, as parseFloat(customerPayment) || 0 reads it
handlePaymentChange(t, amount) ==
  /\ Ready(t) /\ ModalClosed(t)
  /\ customerPayment' = [customerPayment EXCEPT ![t] = amount]
  /\ lastEvent' = NoEvent
  /\ UNCHANGED <<storeVars, clock, envVars, issued, loading, products, fetchPending, cart,
                 selectedPaymentMethod, selectedCustomerType, selectedDineInTakeout,
                 isCheckingOut, modalVars, checkout>>
  /\ UNCHANGED <<otherPages, recentSales>>

\* the grid shows a product when it has stock or is in the cart
handleProductClick(t, pid) ==
  /\ Ready(t) /\ ModalClosed(t)
  /\ pid \in DOMAIN products[t]
  /\ products[t][pid].qty > 0 \/ CartIndex(cart[t], pid) > 0
  /\ LET i == CartIndex(cart[t], pid) IN
       IF i > 0
       THEN /\ editingCartItem' = [editingCartItem EXCEPT ![t] = cart[t][i]]
            /\ UNCHANGED selectedProduct
       ELSE /\ selectedProduct' = [selectedProduct EXCEPT ![t] = products[t][pid]]
            /\ UNCHANGED editingCartItem
  /\ lastEvent' = NoEvent
  /\ UNCHANGED <<storeVars, clock, envVars, issued, loading, products, fetchPending, cart, formVars,
                 isCheckingOut, checkout>>
  /\ UNCHANGED <<otherPages, recentSales>>

handleCartItemClick(t, i) ==
  /\ Ready(t) /\ ModalClosed(t)
  /\ i \in 1..Len(cart[t])
  /\ editingCartItem' = [editingCartItem EXCEPT ![t] = cart[t][i]]
  /\ lastEvent' = NoEvent
  /\ UNCHANGED <<storeVars, clock, envVars, issued, loading, products, fetchPending, cart, formVars,
                 isCheckingOut, selectedProduct, checkout>>
  /\ UNCHANGED <<otherPages, recentSales>>

closeModal(t) ==
  /\ Ready(t) /\ ~ModalClosed(t)
  /\ selectedProduct' = [selectedProduct EXCEPT ![t] = NoProduct]
  /\ editingCartItem' = [editingCartItem EXCEPT ![t] = NoItem]
  /\ lastEvent' = NoEvent
  /\ UNCHANGED <<storeVars, clock, envVars, issued, loading, products, fetchPending, cart, formVars,
                 isCheckingOut, checkout>>
  /\ UNCHANGED <<otherPages, recentSales>>

\* the cart handleAddToCart leaves for the quantity typed, and its outcome
AddToCart(c, sel, edit, qty) ==
  LET maxQty == MaxQuantity(c, sel, edit)
      existingIndex == CartIndex(c, sel.id)
  IN IF qty <= 0 THEN [cart |-> c, result |-> "invalid quantity"]
     ELSE IF qty > maxQty THEN [cart |-> c, result |-> "insufficient stock"]
     ELSE IF edit # NoItem
       THEN [cart |-> [i \in 1..Len(c) |->
                        IF c[i].product.id = edit.product.id
                        THEN [c[i] EXCEPT !.quantity = qty] ELSE c[i]],
             result |-> "ok"]
     ELSE IF existingIndex > 0
       THEN IF c[existingIndex].quantity + qty > sel.qty
            THEN [cart |-> c, result |-> "insufficient stock"]
            ELSE [cart |-> [c EXCEPT ![existingIndex].quantity = @ + qty], result |-> "ok"]
     ELSE [cart |-> Append(c, [product |-> sel, quantity |-> qty]), result |-> "ok"]

AddToCartResult(t, qty) == AddToCart(cart[t], selectedProduct[t], editingCartItem[t], qty)

\* qty is parseInt(modalQuantity) || 0 for the quantity typed in the modal
handleAddToCart(t, qty) ==
  /\ Ready(t) /\ ~ModalClosed(t)
  /\ LET r == AddToCartResult(t, qty) IN
       /\ cart' = [cart EXCEPT ![t] = r.cart]
       /\ lastEvent' = AddEvent(t, qty, r.result)
       /\ IF r.result = "ok"
          THEN /\ selectedProduct' = [selectedProduct EXCEPT ![t] = NoProduct]
               /\ editingCartItem' = [editingCartItem EXCEPT ![t] = NoItem]
          ELSE UNCHANGED modalVars
  /\ UNCHANGED <<storeVars, clock, envVars, issued, loading, products, fetchPending, formVars,
                 isCheckingOut, checkout>>
  /\ UNCHANGED <<otherPages, recentSales>>

handleRemoveFromCart(t) ==
  /\ Ready(t) /\ editingCartItem[t] # NoItem
  /\ cart' = [cart EXCEPT ![t] =
        SelectSeq(@, LAMBDA item : item.product.id # editingCartItem[t].product.id)]
  /\ selectedProduct' = [selectedProduct EXCEPT ![t] = NoProduct]
  /\ editingCartItem' = [editingCartItem EXCEPT ![t] = NoItem]
  /\ lastEvent' = NoEvent
  /\ UNCHANGED <<storeVars, clock, envVars, issued, loading, products, fetchPending, formVars,
                 isCheckingOut, checkout>>
  /\ UNCHANGED <<otherPages, recentSales>>

\* handleProductClick, the quantity typed, handleAddToCart: the modal opened and
\* confirmed with nothing in between
AddLine(t, pid, qty) ==
  /\ Ready(t) /\ ModalClosed(t)
  /\ pid \in DOMAIN products[t]
  /\ products[t][pid].qty > 0 \/ CartIndex(cart[t], pid) > 0
  /\ LET i == CartIndex(cart[t], pid)
         r == AddToCart(cart[t], IF i > 0 THEN NoProduct ELSE products[t][pid],
                        IF i > 0 THEN cart[t][i] ELSE NoItem, qty)
     IN /\ cart' = [cart EXCEPT ![t] = r.cart]
        /\ lastEvent' = AddEvent(t, qty, r.result)
  /\ UNCHANGED <<storeVars, clock, envVars, issued, loading, products, fetchPending, formVars,
                 isCheckingOut, modalVars, checkout>>
  /\ UNCHANGED <<otherPages, recentSales>>

\* the operator fills the whole form: the four setters above, one after the other
FillForm(t) ==
  /\ Ready(t) /\ ModalClosed(t)
  /\ \E pm \in PaymentMethods, ct \in CustomerTypes, ot \in OrderTypes, amount \in {PayInFull} :
       /\ selectedPaymentMethod' = [selectedPaymentMethod EXCEPT ![t] = pm]
       /\ selectedCustomerType' = [selectedCustomerType EXCEPT ![t] = ct]
       /\ selectedDineInTakeout' = [selectedDineInTakeout EXCEPT ![t] = ot]
       /\ customerPayment' = [customerPayment EXCEPT ![t] = amount]
  /\ lastEvent' = NoEvent
  /\ UNCHANGED <<storeVars, clock, envVars, issued, loading, products, fetchPending, cart,
                 isCheckingOut, modalVars, checkout>>
  /\ UNCHANGED <<otherPages, recentSales>>

clearCart(t) ==
  /\ Ready(t) /\ ModalClosed(t) /\ Len(cart[t]) > 0
  /\ cart' = [cart EXCEPT ![t] = <<>>]
  /\ selectedPaymentMethod' = [selectedPaymentMethod EXCEPT ![t] = ""]
  /\ selectedCustomerType' = [selectedCustomerType EXCEPT ![t] = ""]
  /\ selectedDineInTakeout' = [selectedDineInTakeout EXCEPT ![t] = NULL]
  /\ customerPayment' = [customerPayment EXCEPT ![t] = 0]
  /\ lastEvent' = NoEvent
  /\ UNCHANGED <<storeVars, clock, envVars, issued, loading, products, fetchPending, isCheckingOut,
                 modalVars, checkout>>
  /\ UNCHANGED <<otherPages, recentSales>>

---------------------------------------------------------------------------
(* SalesPage: handleCheckout, one action per stretch between two awaits *)

\* the instants new Date() returns to the successive cart.map callbacks
Stamps(n) == {s \in [1..n -> clock..MaxClock] : \A i \in 1..(n-1) : s[i] <= s[i+1]}

\* the price of a product as the table has it now (the cart's where it has none)
LivePrice(product) ==
  IF product.id \in DOMAIN tblProducts THEN tblProducts[product.id].selling_price
  ELSE product.selling_price

\* a record whose total is computed from the table's price
SaleRecordAtLivePrice(t, item, transactionId, transactionNumber, now) ==
  [transaction_id |-> transactionId,
   transaction_number |-> transactionNumber,
   product_id |-> item.product.id,
   qty |-> item.quantity,
   cost |-> item.product.cost,
   selling_price |-> item.product.selling_price,
   total |-> item.quantity * LivePrice(item.product),
   payment_method |-> selectedPaymentMethod[t],
   customer_type |-> selectedCustomerType[t],
   dine_in_takeout |-> selectedDineInTakeout[t],
   customer_payment |-> paymentAmount(t),
   earnings_datetime |-> now]

SaleRecord(t, item, transactionId, transactionNumber, now) ==
  [transaction_id |-> transactionId,
   transaction_number |-> transactionNumber,
   product_id |-> item.product.id,
   qty |-> item.quantity,
   cost |-> item.product.cost,
   selling_price |-> item.product.selling_price,
   total |-> item.quantity * item.product.selling_price,
   payment_method |-> selectedPaymentMethod[t],
   customer_type |-> selectedCustomerType[t],
   dine_in_takeout |-> selectedDineInTakeout[t],
   customer_payment |-> paymentAmount(t),
   earnings_datetime |-> now]

\* INSERT: the store assigns id, created_at (NOW()) and cancelled
InsertedRow(rec, id, now) ==
  [id |-> id, created_at |-> now, cancelled |-> FALSE,
   transaction_id |-> rec.transaction_id, transaction_number |-> rec.transaction_number,
   product_id |-> rec.product_id, qty |-> rec.qty, cost |-> rec.cost,
   selling_price |-> rec.selling_price, total |-> rec.total,
   payment_method |-> rec.payment_method, customer_type |-> rec.customer_type,
   dine_in_takeout |-> rec.dine_in_takeout, customer_payment |-> rec.customer_payment,
   earnings_datetime |-> rec.earnings_datetime]

\* the click on Checkout: if (!canCheckout) return; else the handler starts
handleCheckout(t) ==
  /\ Ready(t) /\ ModalClosed(t)
  /\ IF ~canCheckout(t)
     THEN /\ lastEvent' = Event("handleCheckout", t, 0, "rejected")
          /\ UNCHANGED <<storeVars, isCheckingOut, checkout>>
     ELSE /\ nextUuid + Len(cart[t]) <= MaxUuid
          /\ isCheckingOut' = [isCheckingOut EXCEPT ![t] = TRUE]
          /\ checkout' = [checkout EXCEPT ![t] =
                [IdleCheckout EXCEPT !.pc = "allocating", !.cart = cart[t],
                                     !.transactionId = nextUuid]]
          /\ nextUuid' = nextUuid + 1
          /\ lastEvent' = Event("handleCheckout", t, 0, "started")
          /\ UNCHANGED <<tblProducts, tblSales>>
  /\ UNCHANGED <<clock, envVars, issued, loading, products, fetchPending, cart, formVars, modalVars>>
  /\ UNCHANGED <<otherPages, recentSales>>

\* a handler that goes on to the inventory loop once the number is there, the insert
\* not yet answered
generateTransactionNumberReturnToLoop(t) ==
  /\ checkout[t].pc = "allocating"
  /\ \E queryOk \in Answers, stamps \in Stamps(Len(checkout[t].cart)) :
       LET c == checkout[t].cart
           transactionNumber == generateTransactionNumber(tblSales, clock, queryOk)
       IN /\ checkout' = [checkout EXCEPT ![t].pc = "adjusting", ![t].idx = 1,
                 ![t].transactionNumber = transactionNumber,
                 ![t].saleRecords = [i \in 1..Len(c) |->
                    SaleRecord(t, c[i], checkout[t].transactionId, transactionNumber, stamps[i])]]
          /\ clock' = stamps[Len(c)]
          /\ lastEvent' = NoEvent
  /\ UNCHANGED <<storeVars, envVars, issued, loading, products, fetchPending, cart, formVars,
                 isCheckingOut, modalVars>>
  /\ UNCHANGED <<otherPages, recentSales>>

\* generateTransactionNumber's query answers; saleRecords is built; the insert is sent
generateTransactionNumberReturn(t) ==
  /\ checkout[t].pc = "allocating"
  /\ \E queryOk \in Answers, stamps \in Stamps(Len(checkout[t].cart)) :
       LET c == checkout[t].cart
           transactionNumber == generateTransactionNumber(tblSales, clock, queryOk)
       IN /\ checkout' = [checkout EXCEPT ![t].pc = "persisting",
                 ![t].transactionNumber = transactionNumber,
                 ![t].saleRecords = [i \in 1..Len(c) |->
                    SaleRecord(t, c[i], checkout[t].transactionId, transactionNumber, stamps[i])]]
          /\ clock' = stamps[Len(c)]
          /\ lastEvent' = NoEvent
  /\ UNCHANGED <<storeVars, envVars, issued, loading, products, fetchPending, cart, formVars,
                 isCheckingOut, modalVars>>
  /\ UNCHANGED <<otherPages, recentSales>>

\* product_id UUID REFERENCES products(id): no row is inserted for a product that
\* is not in the table
ProductsExist(recs) == \A i \in 1..Len(recs) : recs[i].product_id \in DOMAIN tblProducts

\* a handler without the finally: after saleError the in-progress flag stays set
insertSalesNoFinally(t) ==
  /\ checkout[t].pc = "persisting"
  /\ \E answer \in Answers :
       IF answer /\ ProductsExist(checkout[t].saleRecords)
       THEN LET recs == checkout[t].saleRecords
                rows == [i \in 1..Len(recs) |-> InsertedRow(recs[i], nextUuid + i - 1, clock)]
            IN /\ tblSales' = tblSales \cup {rows[i] : i \in 1..Len(recs)}
               /\ nextUuid' = nextUuid + Len(recs)
               /\ issued' = Append(issued, checkout[t].transactionNumber)
               /\ checkout' = [checkout EXCEPT ![t].pc = "adjusting", ![t].saleData = rows,
                                               ![t].idx = 1]
               /\ lastEvent' = NoEvent
               /\ UNCHANGED isCheckingOut
       ELSE /\ checkout' = [checkout EXCEPT ![t] = IdleCheckout]
            /\ UNCHANGED isCheckingOut
            /\ lastEvent' = Event("handleCheckout", t, 0, "failed")
            /\ UNCHANGED <<tblSales, nextUuid, issued>>
  /\ UNCHANGED <<tblProducts, clock, envVars, loading, products, fetchPending, cart, formVars,
                 modalVars>>
  /\ UNCHANGED <<otherPages, recentSales>>

\* the insert answers: saleError ends the handler (catch, finally), else the rows exist
insertSales(t) ==
  /\ checkout[t].pc = "persisting"
  /\ \E answer \in Answers :
       IF answer /\ ProductsExist(checkout[t].saleRecords)
       THEN LET recs == checkout[t].saleRecords
                rows == [i \in 1..Len(recs) |-> InsertedRow(recs[i], nextUuid + i - 1, clock)]
            IN /\ tblSales' = tblSales \cup {rows[i] : i \in 1..Len(recs)}
               /\ nextUuid' = nextUuid + Len(recs)
               /\ issued' = Append(issued, checkout[t].transactionNumber)
               /\ checkout' = [checkout EXCEPT ![t].pc = "adjusting", ![t].saleData = rows,
                                               ![t].idx = 1]
               /\ lastEvent' = NoEvent
               /\ UNCHANGED isCheckingOut
       ELSE /\ checkout' = [checkout EXCEPT ![t] = IdleCheckout]
            /\ isCheckingOut' = [isCheckingOut EXCEPT ![t] = FALSE]
            /\ lastEvent' = Event("handleCheckout", t, 0, "failed")
            /\ UNCHANGED <<tblSales, nextUuid, issued>>
  /\ UNCHANGED <<tblProducts, clock, envVars, loading, products, fetchPending, cart, formVars,
                 modalVars>>
  /\ UNCHANGED <<otherPages, recentSales>>

\* the quantity the inventory loop writes for a cart line
DeductedQty(item) == Max(0, item.product.qty - item.quantity)

\* UPDATE products SET qty = newQty WHERE id = pid
UpdateProductQty(tbl, pid, newQty) ==
  IF pid \in DOMAIN tbl THEN [tbl EXCEPT ![pid].qty = newQty] ELSE tbl

\* if (saleData && saleData.length > 0) addRecentSale(saleData[0])
addRecentSale(recent, saleData) ==
  IF Len(saleData) > 0 THEN recent \cup {saleData[1]} ELSE recent

\* an inventory loop that throws on updateError: catch, finally
deductInventoryOrThrow(t) ==
  /\ checkout[t].pc = "adjusting"
  /\ LET item == checkout[t].cart[checkout[t].idx]
         last == checkout[t].idx = Len(checkout[t].cart)
     IN \E ok \in Answers :
          /\ tblProducts' = IF ok THEN UpdateProductQty(tblProducts, item.product.id, DeductedQty(item))
                            ELSE tblProducts
          /\ IF ~ok
             THEN /\ checkout' = [checkout EXCEPT ![t] = IdleCheckout]
                  /\ isCheckingOut' = [isCheckingOut EXCEPT ![t] = FALSE]
                  /\ lastEvent' = Event("handleCheckout", t, 0, "failed")
                  /\ UNCHANGED <<cart, formVars, fetchPending, recentSales>>
             ELSE IF last
             THEN /\ checkout' = [checkout EXCEPT ![t] = IdleCheckout]
                  /\ cart' = [cart EXCEPT ![t] = <<>>]
                  /\ selectedPaymentMethod' = [selectedPaymentMethod EXCEPT ![t] = ""]
                  /\ selectedCustomerType' = [selectedCustomerType EXCEPT ![t] = ""]
                  /\ selectedDineInTakeout' = [selectedDineInTakeout EXCEPT ![t] = NULL]
                  /\ customerPayment' = [customerPayment EXCEPT ![t] = 0]
                  /\ fetchPending' = [fetchPending EXCEPT ![t] = TRUE]
                  /\ isCheckingOut' = [isCheckingOut EXCEPT ![t] = FALSE]
                  /\ recentSales' = addRecentSale(recentSales, checkout[t].saleData)
                  /\ lastEvent' = Event("handleCheckout", t, 0, "completed")
             ELSE /\ checkout' = [checkout EXCEPT ![t].idx = @ + 1]
                  /\ lastEvent' = NoEvent
                  /\ UNCHANGED <<cart, formVars, fetchPending, isCheckingOut, recentSales>>
  /\ UNCHANGED <<tblSales, nextUuid, clock, envVars, issued, loading, products, modalVars>>
  /\ UNCHANGED otherPages

\* one turn of the inventory loop; after the last one: addRecentSale, clearCart(),
\* fetchData(), finally
deductInventory(t) ==
  /\ checkout[t].pc = "adjusting"
  /\ LET item == checkout[t].cart[checkout[t].idx]
         last == checkout[t].idx = Len(checkout[t].cart)
     IN /\ \E ok \in Answers :
             tblProducts' = IF ok THEN UpdateProductQty(tblProducts, item.product.id, DeductedQty(item))
                            ELSE tblProducts
        /\ IF last
           THEN /\ checkout' = [checkout EXCEPT ![t] = IdleCheckout]
                /\ cart' = [cart EXCEPT ![t] = <<>>]
                /\ selectedPaymentMethod' = [selectedPaymentMethod EXCEPT ![t] = ""]
                /\ selectedCustomerType' = [selectedCustomerType EXCEPT ![t] = ""]
                /\ selectedDineInTakeout' = [selectedDineInTakeout EXCEPT ![t] = NULL]
                /\ customerPayment' = [customerPayment EXCEPT ![t] = 0]
                /\ fetchPending' = [fetchPending EXCEPT ![t] = TRUE]
                /\ isCheckingOut' = [isCheckingOut EXCEPT ![t] = FALSE]
                /\ recentSales' = addRecentSale(recentSales, checkout[t].saleData)
                /\ lastEvent' = Event("handleCheckout", t, 0, "completed")
           ELSE /\ checkout' = [checkout EXCEPT ![t].idx = @ + 1]
                /\ lastEvent' = NoEvent
                /\ UNCHANGED <<cart, formVars, fetchPending, isCheckingOut, recentSales>>
  /\ UNCHANGED <<tblSales, nextUuid, clock, envVars, issued, loading, products, modalVars>>
  /\ UNCHANGED otherPages

Tick ==
  /\ clock < MaxClock
  /\ clock' = clock + 1
  /\ lastEvent' = NoEvent
  /\ UNCHANGED <<storeVars, envVars, issued, salesPageVars>>
  /\ UNCHANGED <<otherPages, recentSales>>

---------------------------------------------------------------------------
(* Dates: a date typed in a date input is a day; new Date('yyyy-MM-dd') is  *)
(* midnight UTC of that day, which is the evening before where local time  *)
(* is behind UTC.                                                          *)

NoInstant == -1
ParseDate(day) == day * TicksPerDay - (IF tzWest THEN 1 ELSE 0)
startOfDay(ts) == DayOf(ts) * TicksPerDay
endOfDay(ts) == DayOf(ts) * TicksPerDay + (TicksPerDay - 1)

RECURSIVE Perms(_)
Perms(S) == IF S = {} THEN {<<>>}
            ELSE UNION {{<<x>> \o q : q \in Perms(S \ {x})} : x \in S}

\* the rows in the orders .order('created_at', {ascending}) may return them
OrderedByCreatedAt(rows, ascending) ==
  {q \in Perms(rows) : \A i \in 1..(Len(q) - 1) :
     IF ascending THEN q[i].created_at <= q[i+1].created_at
     ELSE q[i].created_at >= q[i+1].created_at}

---------------------------------------------------------------------------
(* ReportsPage *)

\* sale.transaction_id || sale.id
TxKey(sale) == IF sale.transaction_id # 0 THEN sale.transaction_id ELSE sale.id

\* txId.substring(0, 8), shown when a line has no transaction number
IdPrefix(txId) == [ym |-> -1, digits |-> <<txId>>]

normalizedSales(data) ==
  [i \in 1..Len(data) |->
     [data[i] EXCEPT !.earnings_datetime =
                       IF @ # NoInstant THEN @ ELSE data[i].created_at,
                     !.transaction_id = TxKey(data[i])]]

\* the keys of the groups, in the order reduce meets them
RECURSIVE GroupKeys(_, _)
GroupKeys(lines, seen) ==
  IF lines = <<>> THEN seen
  ELSE GroupKeys(Tail(lines),
                 IF \E k \in 1..Len(seen) : seen[k] = TxKey(Head(lines))
                 THEN seen ELSE Append(seen, TxKey(Head(lines))))

grouped(lines) ==
  LET keys == GroupKeys(lines, <<>>) IN
    [k \in 1..Len(keys) |->
       LET items == SelectSeq(lines, LAMBDA sale : TxKey(sale) = keys[k])
           first == items[1]
       IN [id |-> keys[k],
           transaction_number |-> IF first.transaction_number # NoNumber
                                  THEN first.transaction_number ELSE IdPrefix(keys[k]),
           items |-> items,
           total |-> SumSeq([j \in 1..Len(items) |-> items[j].total]),
           payment_method |-> first.payment_method,
           customer_type |-> first.customer_type,
           dine_in_takeout |-> first.dine_in_takeout,
           created_at |-> first.created_at,
           earnings_datetime |-> first.earnings_datetime,
           customer_payment |-> first.customer_payment]]

\* a comparator that sorts the oldest first
CompareOldestFirst(a, b) == a.created_at - b.created_at

\* the comparator of the sort: b.created_at - a.created_at
CompareTransactions(a, b) == b.created_at - a.created_at

\* Array.prototype.sort: stable, a stays before b unless the comparator is positive
RECURSIVE InsertSorted(_, _)
InsertSorted(sorted, x) ==
  IF sorted = <<>> THEN <<x>>
  ELSE IF CompareTransactions(sorted[Len(sorted)], x) > 0
       THEN Append(InsertSorted(SubSeq(sorted, 1, Len(sorted) - 1), x), sorted[Len(sorted)])
       ELSE Append(sorted, x)

RECURSIVE SortTransactions(_)
SortTransactions(txs) ==
  IF txs = <<>> THEN <<>>
  ELSE InsertSorted(SortTransactions(SubSeq(txs, 1, Len(txs) - 1)), txs[Len(txs)])

sortedTransactions(data) == SortTransactions(grouped(normalizedSales(data)))

\* the rows fetchSales's query selects
ReportRows ==
  {r \in tblSales : /\ ~r.cancelled
                    /\ r.created_at >= startOfDay(ParseDate(reportDates.startDate))
                    /\ r.created_at <= endOfDay(ParseDate(reportDates.endDate))}

IdleArchive == [pc |-> "idle", ids |-> {}]
NoDownload == [made |-> FALSE, rows |-> <<>>]

\* the page is shown and takes clicks: not loading, and no archive run under way
\* behind the confirmation dialog
ReportsReady == ~reportFetch /\ archiveRun.pc = "idle"

\* the page is opened (or opened again): it mounts afresh and fetches
ReportsMount ==
  /\ ReportsReady
  /\ reportDates' = [startDate |-> DayOf(clock) - 7, endDate |-> DayOf(clock)]
  /\ reportSales' = <<>>
  /\ transactions' = <<>>
  /\ selectedTransactions' = {}
  /\ reportFetch' = TRUE
  /\ lastEvent' = NoEvent
  /\ UNCHANGED <<storeVars, clock, envVars, issued, salesPageVars, appVars, earningsVars, archiveVars>>

\* the response of fetchSales's query
fetchSalesReturn ==
  /\ reportFetch
  /\ reportFetch' = FALSE
  /\ \E ok \in Answers :
       IF ok
       THEN \E data \in OrderedByCreatedAt(ReportRows, FALSE) :
              /\ reportSales' = normalizedSales(data)
              /\ transactions' = sortedTransactions(data)
       ELSE UNCHANGED <<reportSales, transactions>>
  /\ lastEvent' = NoEvent
  /\ UNCHANGED <<storeVars, clock, envVars, issued, salesPageVars, appVars, earningsVars, archiveVars, reportDates,
                 selectedTransactions>>

TransactionIds == {transactions[k].id : k \in 1..Len(transactions)}

toggleSelectTransaction(txId) ==
  /\ ReportsReady
  /\ txId \in TransactionIds
  /\ selectedTransactions' = IF txId \in selectedTransactions
                             THEN selectedTransactions \ {txId}
                             ELSE selectedTransactions \cup {txId}
  /\ lastEvent' = NoEvent
  /\ UNCHANGED <<storeVars, clock, envVars, issued, salesPageVars, appVars, earningsVars, archiveVars, reportDates, reportSales,
                 transactions, reportFetch>>

toggleSelectAll ==
  /\ ReportsReady
  /\ transactions # <<>>
  /\ selectedTransactions' = IF Cardinality(selectedTransactions) = Len(transactions)
                             THEN {} ELSE TransactionIds
  /\ lastEvent' = NoEvent
  /\ UNCHANGED <<storeVars, clock, envVars, issued, salesPageVars, appVars, earningsVars, archiveVars, reportDates, reportSales,
                 transactions, reportFetch>>

\* transactions.filter((t) => selectedTransactions.has(t.id))
selectedTxs == SelectSeq(transactions, LAMBDA tx : tx.id \in selectedTransactions)

\* the ids handleArchive deletes: the lines held whose transaction is ticked
salesToArchive ==
  {reportSales[i].id : i \in {j \in 1..Len(reportSales) :
                                TxKey(reportSales[j]) \in selectedTransactions}}

\* the rows of the CSV, one per transaction of selectedTxs
csvRows ==
  [k \in 1..Len(selectedTxs) |->
     [transaction_number |-> selectedTxs[k].transaction_number,
      payment_method |-> selectedTxs[k].payment_method,
      customer_type |-> selectedTxs[k].customer_type,
      dine_in_takeout |-> selectedTxs[k].dine_in_takeout,
      created_at |-> selectedTxs[k].created_at,
      earnings_datetime |-> selectedTxs[k].earnings_datetime,
      total |-> selectedTxs[k].total]]

\* the toast of handleArchive's catch block, whatever was thrown in the try block
archiveCatch == "Failed to archive sales"

\* a selection cleared whatever the delete answered
SelectionCleared(selected, ok) == {}

\* the selection once the delete has answered: cleared unless the answer is an error
SelectionAfterDelete(selected, ok) == IF ok THEN {} ELSE selected

\* Download & Delete is clicked: the CSV is built and downloaded, then the delete is
\* sent; anything thrown on the way to the download ends the handler in its catch
handleArchive ==
  /\ ReportsReady
  /\ selectedTransactions # {}
  /\ \E exported \in Answers :
       IF exported
       THEN /\ download' = [made |-> TRUE, rows |-> csvRows]
            /\ archiveRun' = [pc |-> "deleting", ids |-> salesToArchive]
            /\ lastEvent' = NoEvent
            /\ UNCHANGED archiveOutcomes
       ELSE /\ lastEvent' = Event("handleArchive", "", 1, archiveCatch)
            /\ archiveOutcomes' = archiveOutcomes \cup {[thrownBy |-> "export", toast |-> archiveCatch]}
            /\ UNCHANGED <<download, archiveRun>>
  /\ UNCHANGED <<storeVars, clock, envVars, issued, salesPageVars, appVars, earningsVars, reportDates,
                 reportSales, transactions, selectedTransactions, reportFetch>>

\* the delete answers: on success the selection is cleared and the list fetched again,
\* on an error the handler ends in its catch
archiveDeleteReturn ==
  /\ archiveRun.pc = "deleting"
  /\ archiveRun' = IdleArchive
  /\ \E ok \in Answers :
       /\ tblSales' = IF ok THEN {r \in tblSales : r.id \notin archiveRun.ids} ELSE tblSales
       /\ selectedTransactions' = SelectionAfterDelete(selectedTransactions, ok)
       /\ reportFetch' = ok
       /\ IF ok
          THEN /\ lastEvent' = Event("handleArchive", "", 0, "Reports archived and downloaded")
               /\ UNCHANGED archiveOutcomes
          ELSE /\ lastEvent' = Event("handleArchive", "", 2, archiveCatch)
               /\ archiveOutcomes' = archiveOutcomes \cup {[thrownBy |-> "delete", toast |-> archiveCatch]}
  /\ UNCHANGED <<tblProducts, nextUuid, clock, envVars, issued, salesPageVars, appVars, earningsVars, reportDates,
                 reportSales, transactions, download>>

\* the two date inputs: a new date makes a new fetchSales, and the effect fetches
setStartDate(day) ==
  /\ ReportsReady
  /\ day # reportDates.startDate
  /\ reportDates' = [reportDates EXCEPT !.startDate = day]
  /\ reportFetch' = TRUE
  /\ lastEvent' = NoEvent
  /\ UNCHANGED <<storeVars, clock, envVars, issued, salesPageVars, appVars, earningsVars, archiveVars,
                 reportSales, transactions, selectedTransactions>>

setEndDate(day) ==
  /\ ReportsReady
  /\ day # reportDates.endDate
  /\ reportDates' = [reportDates EXCEPT !.endDate = day]
  /\ reportFetch' = TRUE
  /\ lastEvent' = NoEvent
  /\ UNCHANGED <<storeVars, clock, envVars, issued, salesPageVars, appVars, earningsVars, archiveVars,
                 reportSales, transactions, selectedTransactions>>

\* UPDATE sales SET earnings_datetime = ... WHERE transaction_id = txId
handleUpdateEarningsDateTime(txId, newDateTime) ==
  /\ ReportsReady
  /\ transactions # <<>>
  /\ \E ok \in Answers :
       IF ok
       THEN /\ tblSales' = {IF r.transaction_id = txId
                            THEN [r EXCEPT !.earnings_datetime = newDateTime] ELSE r :
                            r \in tblSales}
            /\ reportSales' = [i \in 1..Len(reportSales) |->
                                 IF TxKey(reportSales[i]) = txId
                                 THEN [reportSales[i] EXCEPT !.earnings_datetime = newDateTime]
                                 ELSE reportSales[i]]
            /\ transactions' = [k \in 1..Len(transactions) |->
                                  IF transactions[k].id = txId
                                  THEN [transactions[k] EXCEPT !.earnings_datetime = newDateTime]
                                  ELSE transactions[k]]
            /\ lastEvent' = Event("handleUpdateEarningsDateTime", "", txId, "Report Date updated")
       ELSE /\ lastEvent' = Event("handleUpdateEarningsDateTime", "", txId, "Failed to update")
            /\ UNCHANGED <<tblSales, reportSales, transactions>>
  /\ UNCHANGED <<tblProducts, nextUuid, clock, envVars, issued, salesPageVars, appVars, earningsVars, archiveVars, reportDates,
                 selectedTransactions, reportFetch>>

\* UPDATE sales SET field = value WHERE transaction_id = txId
handleUpdateTransaction(txId, field, value) ==
  /\ ReportsReady
  /\ transactions # <<>>
  /\ \E ok \in Answers :
       IF ok
       THEN /\ tblSales' = {IF r.transaction_id = txId THEN [r EXCEPT ![field] = value] ELSE r :
                            r \in tblSales}
            /\ reportSales' = [i \in 1..Len(reportSales) |->
                                 IF TxKey(reportSales[i]) = txId
                                 THEN [reportSales[i] EXCEPT ![field] = value]
                                 ELSE reportSales[i]]
            /\ transactions' = [k \in 1..Len(transactions) |->
                                  IF transactions[k].id = txId
                                  THEN [transactions[k] EXCEPT ![field] = value]
                                  ELSE transactions[k]]
            /\ lastEvent' = Event("handleUpdateTransaction", "", txId, "Updated successfully")
       ELSE /\ lastEvent' = Event("handleUpdateTransaction", "", txId, "Failed to update")
            /\ UNCHANGED <<tblSales, reportSales, transactions>>
  /\ UNCHANGED <<tblProducts, nextUuid, clock, envVars, issued, salesPageVars, appVars, earningsVars, archiveVars, reportDates,
                 selectedTransactions, reportFetch>>

---------------------------------------------------------------------------
(* EarningsPage *)

startOfMonth(ts) == MonthOf(ts) * DaysPerMonth * TicksPerDay
endOfMonth(ts) == (MonthOf(ts) + 1) * DaysPerMonth * TicksPerDay - 1

\* a cleanup that forgets to clear its interval
KeepInterval(live, interval) == live

\* the cleanup of the effect: if (interval) clearInterval(interval)
ClearInterval(live, interval) == live \ {interval}

\* setInterval returns an id not in use
NewInterval(live) == CHOOSE id \in 1..MaxTimers : id \notin live /\ \A j \in 1..(id - 1) : j \in live

\* the effect of fetchSales, fetchMonthlySales and viewMode runs again: the cleanup of
\* its last run, then an interval if the view is today's (fetchSales() is sent by the
\* action that runs the effect)
RunEffect(mode) ==
  LET cleared == ClearInterval(timers, effectInterval) IN
    IF mode = "today"
    THEN /\ cleared # 1..MaxTimers
         /\ effectInterval' = NewInterval(cleared)
         /\ timers' = cleared \cup {NewInterval(cleared)}
    ELSE /\ effectInterval' = 0
         /\ timers' = cleared

\* what the closure of a fetchSales holds: viewMode, startDate and endDate
FetchSalesCall(mode, dates) == [viewMode |-> mode, dates |-> dates]

\* fetchOpexData: the sum of monthly_cost (an empty sum when the call fails)
fetchOpexDataReturn ==
  /\ opexFetch
  /\ opexFetch' = FALSE
  /\ \E ok \in Answers :
       LET total == IF ok THEN SumSeq(tblOpex) ELSE 0 IN
         /\ totalMonthlyOpex' = total
         \* a new totalMonthlyOpex makes a new fetchMonthlySales, and the effects run again
         /\ IF total # totalMonthlyOpex
            THEN /\ monthlyFetch' = monthlyFetch \cup {total}
                 /\ earningsFetch' = earningsFetch \cup {FetchSalesCall(viewMode, earningsDates)}
                 /\ RunEffect(viewMode)
            ELSE UNCHANGED <<monthlyFetch, earningsFetch, timers, effectInterval>>
  /\ lastEvent' = NoEvent
  /\ UNCHANGED <<storeVars, clock, envVars, issued, salesPageVars, appVars, reportsVars, earningsMounted, tblOpex,
                 viewMode, earningsDates, earningsSales, monthlyGrossMargin, breakEvenDate>>

\* the loop of fetchMonthlySales over the lines in the order given
RECURSIVE MonthlyWalk(_, _, _, _)
MonthlyWalk(salesData, opex, runningGrossMargin, breakEvenTimestamp) ==
  IF salesData = <<>>
  THEN [runningGrossMargin |-> runningGrossMargin, breakEvenTimestamp |-> breakEvenTimestamp]
  ELSE LET sale == Head(salesData)
           running == runningGrossMargin + (sale.total - sale.cost * sale.qty)
       IN MonthlyWalk(Tail(salesData), opex, running,
                      IF running >= opex /\ breakEvenTimestamp = NoInstant /\ opex > 0
                      THEN sale.created_at ELSE breakEvenTimestamp)

\* the rows fetchMonthlySales's query selects
MonthlyRows ==
  {r \in tblSales : /\ ~r.cancelled
                    /\ r.created_at >= startOfMonth(clock)
                    /\ r.created_at <= endOfMonth(clock)}

\* the response of a fetchMonthlySales query sent when totalMonthlyOpex was opex
fetchMonthlySalesReturn(opex) ==
  /\ opex \in monthlyFetch
  /\ monthlyFetch' = monthlyFetch \ {opex}
  /\ \E ok \in Answers :
       \E data \in (IF ok THEN OrderedByCreatedAt(MonthlyRows, TRUE) ELSE {<<>>}) :
         LET walk == MonthlyWalk(data, opex, 0, NoInstant) IN
           /\ monthlyGrossMargin' = walk.runningGrossMargin
           /\ breakEvenDate' = walk.breakEvenTimestamp
  /\ lastEvent' = NoEvent
  /\ UNCHANGED <<storeVars, clock, envVars, issued, salesPageVars, appVars, reportsVars, pollVars, tblOpex,
                 viewMode, earningsDates, earningsSales, totalMonthlyOpex, opexFetch,
                 earningsFetch>>

\* sale.earnings_datetime || sale.store_sale_datetime || sale.created_at
NormalizedEarnings(sale) ==
  [sale EXCEPT !.earnings_datetime = IF @ # NoInstant THEN @ ELSE sale.created_at]

\* the window fetchSales filters on
EarningsWindow(mode, dates) ==
  IF mode = "today"
  THEN [dateStart |-> startOfDay(clock), dateEnd |-> endOfDay(clock)]
  ELSE [dateStart |-> startOfDay(ParseDate(dates.startDate)),
        dateEnd |-> endOfDay(ParseDate(dates.endDate))]

filteredSales(data, mode, dates) ==
  SelectSeq([i \in 1..Len(data) |-> NormalizedEarnings(data[i])],
            LAMBDA sale : /\ sale.earnings_datetime >= EarningsWindow(mode, dates).dateStart
                          /\ sale.earnings_datetime <= EarningsWindow(mode, dates).dateEnd)

\* the response of the query of a fetchSales whose closure holds call's viewMode,
\* startDate and endDate
fetchEarningsSalesReturn(call) ==
  /\ call \in earningsFetch
  /\ earningsFetch' = earningsFetch \ {call}
  /\ \E ok \in Answers :
       IF ok
       THEN \E data \in OrderedByCreatedAt({r \in tblSales : ~r.cancelled}, TRUE) :
              earningsSales' = filteredSales(data, call.viewMode, call.dates)
       ELSE UNCHANGED earningsSales
  /\ lastEvent' = NoEvent
  /\ UNCHANGED <<storeVars, clock, envVars, issued, salesPageVars, appVars, reportsVars, pollVars, tblOpex,
                 viewMode, earningsDates, totalMonthlyOpex, monthlyGrossMargin, breakEvenDate,
                 opexFetch, monthlyFetch>>

EarningsSettled == ~opexFetch /\ monthlyFetch = {} /\ earningsFetch = {}

\* the Today / Date Range switch; the effect fetches again
setViewMode(mode) ==
  /\ earningsMounted
  /\ mode # viewMode
  /\ viewMode' = mode
  /\ earningsFetch' = earningsFetch \cup {FetchSalesCall(mode, earningsDates)}
  /\ RunEffect(mode)
  /\ lastEvent' = NoEvent
  /\ UNCHANGED <<storeVars, clock, envVars, issued, salesPageVars, appVars, reportsVars, earningsMounted, tblOpex,
                 earningsDates, earningsSales, totalMonthlyOpex, monthlyGrossMargin,
                 breakEvenDate, opexFetch, monthlyFetch>>

\* the two date inputs of the range view
setEarningsDates(startDate, endDate) ==
  /\ earningsMounted
  /\ viewMode = "range"
  /\ [startDate |-> startDate, endDate |-> endDate] # earningsDates
  /\ earningsDates' = [startDate |-> startDate, endDate |-> endDate]
  /\ earningsFetch' = earningsFetch \cup
                        {FetchSalesCall(viewMode, [startDate |-> startDate, endDate |-> endDate])}
  /\ RunEffect(viewMode)
  /\ lastEvent' = NoEvent
  /\ UNCHANGED <<storeVars, clock, envVars, issued, salesPageVars, appVars, reportsVars, earningsMounted, tblOpex,
                 viewMode, earningsSales, totalMonthlyOpex, monthlyGrossMargin,
                 breakEvenDate, opexFetch, monthlyFetch>>

\* an interval fires: its callback calls fetchSales() and fetchMonthlySales()
EarningsInterval(interval) ==
  /\ interval \in timers
  /\ earningsFetch' = earningsFetch \cup {FetchSalesCall(viewMode, earningsDates)}
  /\ monthlyFetch' = monthlyFetch \cup {totalMonthlyOpex}
  /\ lastEvent' = Event("setInterval", "", interval, "")
  /\ UNCHANGED <<storeVars, clock, envVars, issued, salesPageVars, appVars, reportsVars, pollVars, tblOpex,
                 viewMode, earningsDates, earningsSales, totalMonthlyOpex, monthlyGrossMargin,
                 breakEvenDate, opexFetch>>

\* the page is opened: the state of a first render, the three effects run
EarningsMount ==
  /\ ~earningsMounted
  /\ earningsMounted' = TRUE
  /\ viewMode' = "today"
  /\ earningsDates' = [startDate |-> DayOf(clock) - 7, endDate |-> DayOf(clock)]
  /\ earningsSales' = <<>>
  /\ totalMonthlyOpex' = 0
  /\ monthlyGrossMargin' = 0
  /\ breakEvenDate' = NoInstant
  /\ opexFetch' = TRUE
  /\ monthlyFetch' = {0}
  /\ earningsFetch' = {FetchSalesCall("today", [startDate |-> DayOf(clock) - 7,
                                                 endDate |-> DayOf(clock)])}
  /\ RunEffect("today")
  /\ lastEvent' = NoEvent
  /\ UNCHANGED <<storeVars, clock, envVars, issued, salesPageVars, appVars, reportsVars, tblOpex>>

\* the page is left: the cleanup of the effect runs, the state is dropped and the
\* answers still under way find no component
EarningsUnmount ==
  /\ earningsMounted
  /\ earningsMounted' = FALSE
  /\ timers' = ClearInterval(timers, effectInterval)
  /\ effectInterval' = 0
  /\ viewMode' = "today"
  /\ earningsDates' = [startDate |-> DayOf(clock) - 7, endDate |-> DayOf(clock)]
  /\ earningsSales' = <<>>
  /\ totalMonthlyOpex' = 0
  /\ monthlyGrossMargin' = 0
  /\ breakEvenDate' = NoInstant
  /\ opexFetch' = FALSE
  /\ monthlyFetch' = {}
  /\ earningsFetch' = {}
  /\ lastEvent' = NoEvent
  /\ UNCHANGED <<storeVars, clock, envVars, issued, salesPageVars, appVars, reportsVars, tblOpex>>

\* the totals of the lines displayed
totalRevenue == SumSeq([i \in 1..Len(earningsSales) |-> earningsSales[i].total])
totalItemExpenses ==
  SumSeq([i \in 1..Len(earningsSales) |-> earningsSales[i].cost * earningsSales[i].qty])
grossMargin == totalRevenue - totalItemExpenses

remainingOpex == Max(0, totalMonthlyOpex - monthlyGrossMargin)
isBreakEvenReached == remainingOpex = 0 /\ totalMonthlyOpex > 0
opexPaidThisMonth == Min(monthlyGrossMargin, totalMonthlyOpex)
netProfit == IF isBreakEvenReached THEN monthlyGrossMargin - totalMonthlyOpex ELSE 0

\* getLineChartData: the days of the range and, for each, the two series
ChartDays == [k \in 1..(earningsDates.endDate - earningsDates.startDate + 1) |->
                earningsDates.startDate + k - 1]

\* a day's revenue, the cost of the items forgotten
DayRevenue(day) ==
  SumSeq([i \in 1..Len(earningsSales) |->
            IF DayOf(earningsSales[i].earnings_datetime) = day
            THEN earningsSales[i].total ELSE 0])

DayGrossMargin(day) ==
  SumSeq([i \in 1..Len(earningsSales) |->
            IF DayOf(earningsSales[i].earnings_datetime) = day
            THEN earningsSales[i].total - earningsSales[i].cost * earningsSales[i].qty
            ELSE 0])

RECURSIVE ChartWalk(_, _, _, _)
ChartWalk(days, runningGrossMargin, remainingOpexByDay, profitByDay) ==
  IF days = <<>>
  THEN [remainingOpexByDay |-> remainingOpexByDay, profitByDay |-> profitByDay]
  ELSE LET running == runningGrossMargin + DayGrossMargin(Head(days)) IN
         ChartWalk(Tail(days), running,
                   Append(remainingOpexByDay, Max(0, totalMonthlyOpex - running)),
                   Append(profitByDay, IF running > totalMonthlyOpex
                                       THEN running - totalMonthlyOpex ELSE 0))

getLineChartData == ChartWalk(ChartDays, 0, <<>>, <<>>)

---------------------------------------------------------------------------
(* InventoryPage.  The form's number inputs hold text: a number, or text    *)
(* parseFloat makes nothing of.                                            *)

FormNumber(n) == [isNumber |-> TRUE, n |-> n]
NotANumber == [isNumber |-> FALSE, n |-> 0]

\* parseFloat(text) || 0
parseFloatOrZero(text) == IF text.isNumber THEN text.n ELSE 0

\* a form whose quantity is never looked at
QtyNotChecked(qty) == FALSE

\* if (qty < 0): 'Please enter a valid quantity'
QtyRejected(qty) == qty < 0

\* if (cost < 0): 'Please enter a valid cost'
CostRejected(cost) == cost < 0

\* if (sellingPrice <= 0): 'Please enter a valid selling price'
PriceRejected(sellingPrice) == sellingPrice <= 0

\* the toast of a form handleSubmit turns away, "" for a form it takes
SubmitRejection(formData) ==
  IF formData.nameBlank THEN "Please enter an item name"
  ELSE IF QtyRejected(parseFloatOrZero(formData.qty)) THEN "Please enter a valid quantity"
  ELSE IF CostRejected(parseFloatOrZero(formData.cost)) THEN "Please enter a valid cost"
  ELSE IF PriceRejected(parseFloatOrZero(formData.sellingPrice))
       THEN "Please enter a valid selling price"
  ELSE ""

\* itemData, without the name and the image
ItemData(formData) ==
  [qty |-> parseFloatOrZero(formData.qty), cost |-> parseFloatOrZero(formData.cost),
   selling_price |-> parseFloatOrZero(formData.sellingPrice)]

NoEditingItem == NULL

\* the id the store gives an inserted product: one no product ever had
NewProductId == CHOOSE pid \in ProductIds : pid \notin DOMAIN initialStock

\* products.update(itemData).eq('id', editingItem.id)
UpdateProduct(tbl, pid, itemData) ==
  IF pid \in DOMAIN tbl THEN [tbl EXCEPT ![pid] = itemData] ELSE tbl

\* products.insert(itemData)
InsertProduct(tbl, pid, itemData) ==
  [q \in DOMAIN tbl \cup {pid} |-> IF q = pid THEN itemData ELSE tbl[q]]

\* the form of the Add / Edit modal is submitted, editingItem being an item of the
\* list (one that may have been deleted since) or null
handleSubmit(editingItem, formData) ==
  /\ LET rejection == SubmitRejection(formData) IN
       IF rejection # ""
       THEN /\ lastEvent' = Event("handleSubmit", "", 0, rejection)
            /\ UNCHANGED <<tblProducts, initialStock>>
       ELSE \E ok \in Answers :
              IF ~ok
              THEN /\ lastEvent' = Event("handleSubmit", "", 0, "Failed to save item")
                   /\ UNCHANGED <<tblProducts, initialStock>>
              ELSE IF editingItem # NoEditingItem
              THEN /\ tblProducts' = UpdateProduct(tblProducts, editingItem, ItemData(formData))
                   /\ lastEvent' = Event("handleSubmit", "", 0, "Item updated!")
                   /\ UNCHANGED initialStock
              ELSE /\ Cardinality(DOMAIN initialStock) < MaxProducts
                   /\ DOMAIN initialStock # ProductIds
                   /\ tblProducts' = InsertProduct(tblProducts, NewProductId, ItemData(formData))
                   /\ initialStock' = InsertProduct(initialStock, NewProductId,
                                                    ItemData(formData).qty)
                   /\ lastEvent' = Event("handleSubmit", "", 0, "Item added!")
  /\ UNCHANGED <<tblSales, nextUuid, clock, tzWest, storeFaults, issued, salesPageVars,
                 otherPages, recentSales>>

\* products.delete().eq('id', pid), and what it does to the lines of the product:
\* product_id ... REFERENCES products(id) ON DELETE SET NULL
DeleteProduct(tbl, pid) == [q \in DOMAIN tbl \ {pid} |-> tbl[q]]
OnDeleteSetNull(sales, pid) ==
  {IF r.product_id = pid THEN [r EXCEPT !.product_id = NULL] ELSE r : r \in sales}

\* the delete is confirmed for an item of the list
handleDelete(deletingItem) ==
  /\ \E ok \in Answers :
       IF ok
       THEN /\ tblProducts' = DeleteProduct(tblProducts, deletingItem)
            /\ tblSales' = IF deletingItem \in DOMAIN tblProducts
                           THEN OnDeleteSetNull(tblSales, deletingItem) ELSE tblSales
            /\ lastEvent' = Event("handleDelete", "", 0, "Item deleted")
       ELSE /\ lastEvent' = Event("handleDelete", "", 0, "Failed to delete item")
            /\ UNCHANGED <<tblProducts, tblSales>>
  /\ UNCHANGED <<nextUuid, clock, envVars, issued, salesPageVars, otherPages, recentSales>>

---------------------------------------------------------------------------
(* Recent sales.  The checkout registers a sale as recent; while it is, the *)
(* sale can be voided, and the void calls restore_inventory with the        *)
(* quantity of the sale.                                                    *)

\* UPDATE products SET qty = qty + p_qty WHERE id = p_product_id
restore_inventory(tbl, p_product_id, p_qty) ==
  IF p_product_id \in DOMAIN tbl THEN [tbl EXCEPT ![p_product_id].qty = @ + p_qty] ELSE tbl

\* the line of a recent sale is marked cancelled
CancelSale(sales, id) ==
  {IF r.id = id THEN [r EXCEPT !.cancelled = TRUE] ELSE r : r \in sales}

\* a recent sale is voided: its line is cancelled and its quantity goes back to stock
voidRecentSale(sale) ==
  /\ sale \in recentSales
  /\ recentSales' = recentSales \ {sale}
  /\ tblSales' = CancelSale(tblSales, sale.id)
  /\ \E ok \in Answers :
       IF ok
       THEN /\ tblProducts' = restore_inventory(tblProducts, sale.product_id, sale.qty)
            /\ lastEvent' = Event("voidRecentSale", "", sale.id, "restored")
       ELSE /\ lastEvent' = Event("voidRecentSale", "", sale.id, "not restored")
            /\ UNCHANGED tblProducts
  /\ UNCHANGED <<nextUuid, clock, envVars, issued, salesPageVars, otherPages>>

\* the window of a recent sale ends: it can no longer be voided
expireRecentSale(sale) ==
  /\ sale \in recentSales
  /\ recentSales' = recentSales \ {sale}
  /\ lastEvent' = NoEvent
  /\ UNCHANGED <<storeVars, clock, envVars, issued, salesPageVars, otherPages>>

---------------------------------------------------------------------------
(* AuthContext and Dashboard.  Home renders LoginPage while there is no     *)
(* user and Dashboard otherwise; Dashboard renders the page of activePage.  *)
(* A page that is not rendered holds the state of its next mount.           *)

USERS == {[username |-> "Admin", password |-> "Admin", role |-> "owner"],
          [username |-> "Cashier", password |-> "Cashier", role |-> "cashier"]}
NoUser == [username |-> "", role |-> ""]
NavPage == {"sales", "reports", "inventory", "earnings", "opex", "settings"}

isCashier == user.role = "cashier"

\* renderPage: the page Dashboard renders for an activePage
renderPage(cashier, page) ==
  IF cashier /\ page # "sales" /\ page # "reports" THEN "sales" ELSE page

\* what Home renders
RenderedPage == IF user = NoUser THEN "login" ELSE renderPage(isCashier, activePage)

\* SalesPage mounts (or is gone): the state of its first render, fetchData() sent
MountSalesPage ==
  /\ loading' = [t \in Terminals |-> TRUE]
  /\ products' = [t \in Terminals |-> <<>>]
  /\ fetchPending' = [t \in Terminals |-> TRUE]
  /\ cart' = [t \in Terminals |-> <<>>]
  /\ selectedPaymentMethod' = [t \in Terminals |-> ""]
  /\ selectedCustomerType' = [t \in Terminals |-> ""]
  /\ selectedDineInTakeout' = [t \in Terminals |-> NULL]
  /\ customerPayment' = [t \in Terminals |-> 0]
  /\ isCheckingOut' = [t \in Terminals |-> FALSE]
  /\ selectedProduct' = [t \in Terminals |-> NoProduct]
  /\ editingCartItem' = [t \in Terminals |-> NoItem]
  /\ checkout' = [t \in Terminals |-> IdleCheckout]

\* ReportsPage mounts with fetchSales() sent, or is gone
MountReportsPage(mounted) ==
  /\ reportDates' = [startDate |-> DayOf(clock) - 7, endDate |-> DayOf(clock)]
  /\ reportSales' = <<>>
  /\ transactions' = <<>>
  /\ selectedTransactions' = {}
  /\ reportFetch' = mounted
  /\ archiveRun' = IdleArchive
  /\ UNCHANGED <<download, archiveOutcomes>>

\* Dashboard renders activePage anew: the pages mount as on a first render
ShowPage(cashier, page) ==
  /\ activePage' = renderPage(cashier, page)
  /\ MountSalesPage
  /\ MountReportsPage(renderPage(cashier, page) = "reports")

\* no checkout and no archive is under way: the operator waits for them to end
\* before leaving a page
PagesIdle == (\A t \in Terminals : ~isCheckingOut[t]) /\ archiveRun = IdleArchive

\* LoginPage.handleSubmit: login(username, password); on success Dashboard mounts
login(username, password) ==
  /\ user = NoUser
  /\ LET found == {u \in USERS : u.username = username /\ u.password = password} IN
       IF found # {}
       THEN LET userObj == CHOOSE o \in {[username |-> u.username, role |-> u.role] : u \in found} : TRUE
            IN /\ user' = userObj
               /\ storedUser' = userObj
               /\ ShowPage(userObj.role = "cashier", "sales")
               /\ lastEvent' = Event("login", "", 0, "Welcome to KASHPOS!")
       ELSE /\ lastEvent' = Event("login", "", 0, "Invalid username or password")
            /\ UNCHANGED <<dashVars, salesPageVars, reportsVars>>
  /\ UNCHANGED <<storeVars, clock, envVars, issued, earningsVars, recentSales>>

\* logout: the user and the stored session are dropped, Dashboard is gone
logout ==
  /\ user # NoUser /\ PagesIdle
  /\ user' = NoUser
  /\ storedUser' = NoUser
  /\ ShowPage(FALSE, "sales")
  /\ lastEvent' = NoEvent
  /\ UNCHANGED <<storeVars, clock, envVars, issued, earningsVars, recentSales>>

\* the application is loaded again: AuthProvider takes the user of the stored
\* session, Dashboard starts on 'sales'
restoreSession ==
  /\ PagesIdle
  /\ user' = storedUser
  /\ ShowPage(storedUser.role = "cashier", "sales")
  /\ lastEvent' = NoEvent
  /\ UNCHANGED <<storedUser, storeVars, clock, envVars, issued, earningsVars, recentSales>>

\* setActivePage(page), the setter Dashboard hands to Navigation, and the render
\* that follows it
setActivePage(page) ==
  /\ user # NoUser /\ PagesIdle
  /\ page # activePage
  /\ ShowPage(isCashier, page)
  /\ lastEvent' = Event("setActivePage", "", 0, page)
  /\ UNCHANGED <<user, storedUser, storeVars, clock, envVars, issued, earningsVars, recentSales>>

---------------------------------------------------------------------------
(* Specifications *)

Catalog(pids) == [p \in pids |-> IF p = "p1" THEN [cost |-> 1, selling_price |-> 2]
                                 ELSE [cost |-> 2, selling_price |-> 3]]

Owner == [username |-> "Admin", role |-> "owner"]

\* the owner logged in with the Dashboard on one page, nothing registered as recent
InitShell(page) ==
  /\ user = Owner
  /\ storedUser = Owner
  /\ activePage = page
  /\ recentSales = {}

InitSalesPage ==
  /\ loading = [t \in Terminals |-> TRUE]
  /\ products = [t \in Terminals |-> <<>>]
  /\ fetchPending = [t \in Terminals |-> TRUE]
  /\ cart = [t \in Terminals |-> <<>>]
  /\ selectedPaymentMethod = [t \in Terminals |-> ""]
  /\ selectedCustomerType = [t \in Terminals |-> ""]
  /\ selectedDineInTakeout = [t \in Terminals |-> NULL]
  /\ customerPayment = [t \in Terminals |-> 0]
  /\ isCheckingOut = [t \in Terminals |-> FALSE]
  /\ selectedProduct = [t \in Terminals |-> NoProduct]
  /\ editingCartItem = [t \in Terminals |-> NoItem]
  /\ checkout = [t \in Terminals |-> IdleCheckout]
  /\ lastEvent = NoEvent

\* the Reports page as it mounts: the last seven days, nothing fetched yet
InitReportsPage ==
  /\ reportDates = [startDate |-> DayOf(clock) - 7, endDate |-> DayOf(clock)]
  /\ reportSales = <<>>
  /\ transactions = <<>>
  /\ selectedTransactions = {}
  /\ reportFetch = TRUE
  /\ archiveRun = IdleArchive
  /\ download = NoDownload
  /\ archiveOutcomes = {}

\* the Earnings page is not open
NoEarningsPage ==
  /\ tblOpex = <<>>
  /\ viewMode = "today"
  /\ earningsDates = [startDate |-> DayOf(clock) - 7, endDate |-> DayOf(clock)]
  /\ earningsSales = <<>>
  /\ totalMonthlyOpex = 0
  /\ monthlyGrossMargin = 0
  /\ breakEvenDate = NoInstant
  /\ opexFetch = FALSE
  /\ monthlyFetch = {}
  /\ earningsFetch = {}
  /\ earningsMounted = FALSE
  /\ timers = {}
  /\ effectInterval = 0

\* the Reports page is not open
NoReportsPage ==
  /\ reportDates = [startDate |-> DayOf(clock) - 7, endDate |-> DayOf(clock)]
  /\ reportSales = <<>>
  /\ transactions = <<>>
  /\ selectedTransactions = {}
  /\ reportFetch = FALSE
  /\ archiveRun = IdleArchive
  /\ download = NoDownload
  /\ archiveOutcomes = {}

InitStore(pids, now, faults) ==
  /\ \E stock \in [pids -> 1..MaxStock] :
       /\ tblProducts = [p \in pids |-> [qty |-> stock[p], cost |-> Catalog(pids)[p].cost,
                                         selling_price |-> Catalog(pids)[p].selling_price]]
       /\ initialStock = stock
  /\ tblSales = {}
  /\ nextUuid = 1
  /\ issued = <<>>
  /\ clock = now
  /\ tzWest = FALSE
  /\ storeFaults = faults

SalesPageNext(t) ==
  \/ FetchDataReturn(t)
  \/ \E name \in PaymentMethods : setSelectedPaymentMethod(t, name)
  \/ \E name \in CustomerTypes : setSelectedCustomerType(t, name)
  \/ \E v \in OrderTypes : setSelectedDineInTakeout(t, v)
  \/ \E amount \in Payments : handlePaymentChange(t, amount)
  \/ \E pid \in DOMAIN tblProducts : handleProductClick(t, pid)
  \/ \E i \in 1..2 : handleCartItemClick(t, i)
  \/ closeModal(t)
  \/ \E qty \in 0..MaxQty : handleAddToCart(t, qty)
  \/ handleRemoveFromCart(t)
  \/ clearCart(t)
  \/ handleCheckout(t)
  \/ generateTransactionNumberReturn(t)
  \/ insertSales(t)
  \/ deductInventory(t)

\* the Sales page with the form filled in one go
CheckoutNext(t, quantities) ==
  \/ FetchDataReturn(t)
  \/ FillForm(t)
  \/ \E pid \in DOMAIN tblProducts, qty \in quantities : AddLine(t, pid, qty)
  \/ handleCheckout(t)
  \/ generateTransactionNumberReturn(t)
  \/ insertSales(t)
  \/ deductInventory(t)

\* one terminal, two products, the clock running, the store answering every call
InitLines ==
  /\ InitStore({"p1", "p2"}, MaxClock - 1, FALSE)
  /\ InitShell("sales") /\ InitSalesPage /\ NoReportsPage /\ NoEarningsPage
NextLines == CheckoutNext("t1", 0..MaxQty) \/ Tick
SpecLines == InitLines /\ [][NextLines]_vars

\* two terminals, one product, within one instant, the store answering every call
InitTerminals ==
  /\ InitStore({"p1"}, MaxClock, FALSE)
  /\ InitShell("sales") /\ InitSalesPage /\ NoReportsPage /\ NoEarningsPage
NextTerminals == \E t \in Terminals : CheckoutNext(t, 0..MaxQty)
SpecTerminals == InitTerminals /\ [][NextTerminals]_vars

\* one terminal, one product, every Sales page handler, within one instant
Init ==
  /\ InitStore({"p1"}, MaxClock, TRUE)
  /\ InitShell("sales") /\ InitSalesPage /\ NoReportsPage /\ NoEarningsPage
Next == SalesPageNext("t1")
Spec == Init /\ [][Next]_vars

\* one terminal selling while the inventory is filled and edited and recent sales are
\* voided, the store failing calls at will; the table starts empty and holds
\* MaxProducts products over time
InventoryForms ==
  {[nameBlank |-> FALSE, qty |-> q, cost |-> FormNumber(1), sellingPrice |-> FormNumber(2)] :
      q \in {NotANumber, FormNumber(-1), FormNumber(1)}}
  \cup {[nameBlank |-> FALSE, qty |-> FormNumber(1), cost |-> FormNumber(-1),
          sellingPrice |-> FormNumber(0)]}

InitInventory ==
  /\ tblProducts = [p \in {} |-> 0]
  /\ initialStock = [p \in {} |-> 0]
  /\ tblSales = {}
  /\ nextUuid = 1
  /\ issued = <<>>
  /\ clock = MaxClock
  /\ tzWest = FALSE
  /\ storeFaults = TRUE
  /\ InitShell("sales") /\ InitSalesPage /\ NoReportsPage /\ NoEarningsPage

NextInventory ==
  \/ CheckoutNext("t1", {1})
  \/ \E editingItem \in DOMAIN initialStock \cup {NoEditingItem}, formData \in InventoryForms :
       handleSubmit(editingItem, formData)
  \/ \E deletingItem \in DOMAIN tblProducts : handleDelete(deletingItem)
  \/ \E sale \in recentSales : voidRecentSale(sale)
  \/ \E sale \in recentSales : expireRecentSale(sale)

SpecInventory == InitInventory /\ [][NextInventory]_vars

\* nobody logged in; then users log in and out and move between the pages, the Sales
\* page and the Reports page doing their work while they are rendered
InitDashboard ==
  /\ InitStore({"p1"}, MaxClock, FALSE)
  /\ user = NoUser
  /\ storedUser = NoUser
  /\ activePage = "sales"
  /\ recentSales = {}
  /\ InitSalesPage /\ NoReportsPage /\ NoEarningsPage

NextDashboard ==
  \/ \E username \in {"Admin", "Cashier"}, password \in {"Admin", "Cashier"} :
       login(username, password)
  \/ logout
  \/ restoreSession
  \/ \E page \in NavPage : setActivePage(page)
  \/ RenderedPage = "sales" /\ CheckoutNext("t1", {1})
  \/ RenderedPage = "reports" /\ fetchSalesReturn

SpecDashboard == InitDashboard /\ [][NextDashboard]_vars

\* what the store holds of earlier business: a two-line transaction and a line
\* written before lines carried a transaction id
SeedLine(id, transactionId, transactionNumber, pid, price, now) ==
  [id |-> id, created_at |-> now, cancelled |-> FALSE,
   transaction_id |-> transactionId, transaction_number |-> transactionNumber,
   product_id |-> pid, qty |-> 1, cost |-> 1, selling_price |-> price, total |-> price,
   payment_method |-> "Cash", customer_type |-> "Regular", dine_in_takeout |-> "dine_in",
   customer_payment |-> PayInFull, earnings_datetime |-> now]

SeedNumber(n) == [ym |-> 0, digits |-> PadStart(NumToString(n), PadWidth)]

\* earlier transactions: A with two lines, B with one, and L, a line written before
\* lines carried a transaction id or number
SeedA(now) == {SeedLine(11, 10, SeedNumber(1), "p1", 2, now),
               SeedLine(12, 10, SeedNumber(1), NULL, 3, now)}
SeedB(now) == {SeedLine(21, 20, SeedNumber(2), "p1", 2, now)}
SeedL(now) == {SeedLine(31, 0, NoNumber, "p1", 2, now)}

SeedStores ==
  {a \cup b \cup l :
     a \in {{}} \cup {SeedA(now) : now \in 0..MaxClock},
     b \in {{}} \cup {SeedB(now) : now \in 0..MaxClock},
     l \in {{}, SeedL(MaxClock)}}

\* the report dates the owner types when editing
EditInstants == {MaxClock - 1}

\* the list of the Reports page: loading, ticking and editing
ReportsListNext ==
  \/ ReportsMount
  \/ fetchSalesReturn
  \/ \E txId \in TransactionIds : toggleSelectTransaction(txId)
  \/ toggleSelectAll
  \/ \E newDateTime \in EditInstants :
       handleUpdateEarningsDateTime(transactions[1].id, newDateTime)
  \/ handleUpdateTransaction(transactions[1].id, "dine_in_takeout", "takeout")

ReportsNext ==
  \/ ReportsListNext
  \/ handleArchive
  \/ archiveDeleteReturn

\* one terminal selling a product whose cost and price are edited and which is
\* deleted, while the Reports page edits the transactions, the store answering
\* every call
PriceForms ==
  {[nameBlank |-> FALSE, qty |-> FormNumber(1), cost |-> FormNumber(c),
    sellingPrice |-> FormNumber(c + 1)] : c \in {1, 2}}

InitSnapshots ==
  /\ InitStore({"p1"}, MaxClock, FALSE)
  /\ InitShell("sales") /\ InitSalesPage /\ InitReportsPage /\ NoEarningsPage

NextSnapshots ==
  \/ CheckoutNext("t1", {1})
  \/ \E editingItem \in DOMAIN initialStock, formData \in PriceForms :
       handleSubmit(editingItem, formData)
  \/ \E deletingItem \in DOMAIN tblProducts : handleDelete(deletingItem)
  \/ fetchSalesReturn
  \/ \E newDateTime \in EditInstants :
       handleUpdateEarningsDateTime(transactions[1].id, newDateTime)
  \/ handleUpdateTransaction(transactions[1].id, "dine_in_takeout", "takeout")

SpecSnapshots == InitSnapshots /\ [][NextSnapshots]_vars

InitOneProduct ==
  /\ tblProducts = [p \in {"p1"} |-> [qty |-> MaxStock, cost |-> Catalog({"p1"})[p].cost,
                                      selling_price |-> Catalog({"p1"})[p].selling_price]]
  /\ initialStock = [p \in {"p1"} |-> MaxStock]
  /\ nextUuid = 1
  /\ issued = <<>>
  /\ clock = MaxClock
  /\ tzWest = FALSE
  /\ InitShell("reports")
  /\ InitSalesPage
  /\ InitReportsPage
  /\ NoEarningsPage

\* one terminal selling one product while the owner works on the Reports page
InitReports == InitOneProduct /\ tblSales = {} /\ storeFaults = FALSE
NextReports == CheckoutNext("t1", {1}) \/ ReportsNext
SpecReports == InitReports /\ [][NextReports]_vars

\* the Reports page over a store that holds earlier business, with calls that may fail
InitGrouping == InitOneProduct /\ tblSales \in SeedStores /\ storeFaults = TRUE
NextGrouping == ReportsListNext
SpecGrouping == InitGrouping /\ [][NextGrouping]_vars

\* the dates the owner picks: the default ones, the day after today as start date,
\* yesterday as end date
ReportStartDays == {DayOf(clock) - 7, DayOf(clock) + 1}
ReportEndDays == {DayOf(clock), DayOf(clock) - 1}

\* the Reports page with its date inputs, over earlier business, with calls that may fail
ArchiveStores == {SeedA(0) \cup SeedB(MaxClock), SeedA(0) \cup SeedL(MaxClock)}
InitArchive == InitOneProduct /\ tblSales \in ArchiveStores /\ storeFaults = TRUE
NextArchive ==
  \/ ReportsNext
  \/ \E day \in ReportStartDays : setStartDate(day)
  \/ \E day \in ReportEndDays : setEndDate(day)
SpecArchive == InitArchive /\ [][NextArchive]_vars

\* the Earnings page as it mounts
InitEarningsPage ==
  /\ viewMode = "today"
  /\ earningsDates = [startDate |-> DayOf(clock) - 7, endDate |-> DayOf(clock)]
  /\ earningsSales = <<>>
  /\ totalMonthlyOpex = 0
  /\ monthlyGrossMargin = 0
  /\ breakEvenDate = NoInstant
  /\ opexFetch = TRUE
  /\ monthlyFetch = {0}
  /\ earningsFetch = {FetchSalesCall("today", earningsDates)}
  /\ earningsMounted = TRUE
  /\ timers = {1}
  /\ effectInterval = 1

\* a line sold at 500 that cost 100, as a checkout wrote it at the instant created
EarningsLine(id, created, reported, cancelled) ==
  [id |-> id, created_at |-> created, cancelled |-> cancelled,
   transaction_id |-> 10 * id,
   transaction_number |-> [ym |-> MonthOf(created), digits |-> PadStart(NumToString(id), PadWidth)],
   product_id |-> "p1", qty |-> 1, cost |-> 100, selling_price |-> 500, total |-> 500,
   payment_method |-> "Cash", customer_type |-> "Regular", dine_in_takeout |-> "dine_in",
   customer_payment |-> 500, earnings_datetime |-> reported]

\* the last day of the second month, and the days from the eve of that month to it
EarningsToday == 2 * DaysPerMonth - 1
EarningsDays == (EarningsToday - DaysPerMonth)..EarningsToday

\* three lines captured at the start of their days, the second one's report
\* timestamp possibly edited to the end of some day, the first possibly cancelled
EarningsStores ==
  {{EarningsLine(1, d1 * TicksPerDay, d1 * TicksPerDay, c1),
    EarningsLine(2, d2 * TicksPerDay, e2, FALSE),
    EarningsLine(3, d3 * TicksPerDay, d3 * TicksPerDay, FALSE)} :
     d1 \in EarningsDays, d2 \in EarningsDays, d3 \in EarningsDays, c1 \in BOOLEAN,
     e2 \in {NoInstant} \cup {endOfDay(d * TicksPerDay) : d \in EarningsDays}}

OpexTables == {<<>>, <<400>>, <<400, 600>>}

InitEarnings ==
  /\ tblProducts = [p \in {"p1"} |-> [qty |-> MaxStock, cost |-> 100, selling_price |-> 500]]
  /\ initialStock = [p \in {"p1"} |-> MaxStock]
  /\ \E store \in EarningsStores :
       /\ \A r1, r2 \in store : r1.id < r2.id => r1.created_at <= r2.created_at
       /\ tblSales = {IF r.earnings_datetime = NoInstant
                      THEN [r EXCEPT !.earnings_datetime = r.created_at] ELSE r : r \in store}
  /\ tblOpex \in OpexTables
  /\ nextUuid = 1
  /\ issued = <<>>
  /\ clock = endOfDay(EarningsToday * TicksPerDay)
  /\ tzWest \in BOOLEAN
  /\ storeFaults = FALSE
  /\ InitShell("earnings")
  /\ InitSalesPage
  /\ NoReportsPage
  /\ InitEarningsPage

NextEarnings ==
  \/ fetchOpexDataReturn
  \/ \E opex \in monthlyFetch : fetchMonthlySalesReturn(opex)
  \/ \E call \in earningsFetch : fetchEarningsSalesReturn(call)
  \/ \E mode \in {"today", "range"} : EarningsSettled /\ setViewMode(mode)
  \/ \E startDate \in EarningsDays, endDate \in EarningsDays :
       startDate <= endDate /\ EarningsSettled /\ setEarningsDates(startDate, endDate)
  \/ \E interval \in timers : EarningsSettled /\ EarningsInterval(interval)

SpecEarnings == InitEarnings /\ [][NextEarnings]_vars

\* the Earnings page opened and left again and again, over three lines of one month
InitPolling ==
  /\ tblProducts = [p \in {"p1"} |-> [qty |-> MaxStock, cost |-> 100, selling_price |-> 500]]
  /\ initialStock = [p \in {"p1"} |-> MaxStock]
  /\ tblSales = {EarningsLine(id, (EarningsToday - 3 + id) * TicksPerDay,
                               (EarningsToday - 3 + id) * TicksPerDay, FALSE) : id \in 1..3}
  /\ tblOpex \in OpexTables
  /\ nextUuid = 1
  /\ issued = <<>>
  /\ clock = endOfDay(EarningsToday * TicksPerDay)
  /\ tzWest = FALSE
  /\ storeFaults = TRUE
  /\ InitShell("earnings")
  /\ InitSalesPage
  /\ NoReportsPage
  /\ InitEarningsPage

NextPolling ==
  \/ NextEarnings
  \/ EarningsMount
  \/ EarningsUnmount

SpecPolling == InitPolling /\ [][NextPolling]_vars

\* one terminal checking out over a store that holds the lines of earlier checkouts of
\* this month and of the month before: the first numbers of a month, the last number
\* of five digits and the number after it
LastPadded == 10 * 10 * 10 * 10 * 10 - 1
IssuedNumber(yearMonth, n) == [ym |-> yearMonth, digits |-> PadStart(NumToString(n), PadWidth)]
NumberSeeds == {1, 2, LastPadded, LastPadded + 1}
NumberedLine(yearMonth, n) ==
  SeedLine(1000 + 10 * n + (yearMonth + 1), 2000 + 10 * n + (yearMonth + 1),
           IssuedNumber(yearMonth, n), "p1", 2, 0)

NumberStores ==
  {{NumberedLine(MonthOf(MaxClock), n) : n \in now} \cup
   {NumberedLine(MonthOf(MaxClock) - 1, n) : n \in before} :
     now \in SUBSET NumberSeeds, before \in SUBSET {1, LastPadded}}

InitNumbers == InitOneProduct /\ tblSales \in NumberStores /\ storeFaults = FALSE
NextNumbers == CheckoutNext("t1", {1})
SpecNumbers == InitNumbers /\ [][NextNumbers]_vars

\* one terminal selling two products, the store failing calls at will
InitFaults ==
  /\ InitStore({"p1", "p2"}, MaxClock, TRUE)
  /\ InitShell("sales") /\ InitSalesPage /\ NoReportsPage /\ NoEarningsPage
NextFaults == CheckoutNext("t1", 1..MaxStock)
SpecFaults == InitFaults /\ [][NextFaults]_vars

\* one terminal with every handler of the Sales page over two products, the store
\* answering every call
InitCart ==
  /\ InitStore({"p1", "p2"}, MaxClock, FALSE)
  /\ InitShell("sales") /\ InitSalesPage /\ NoReportsPage /\ NoEarningsPage
NextCart == SalesPageNext("t1")
SpecCart == InitCart /\ [][NextCart]_vars

\* one terminal selling two products and voiding its recent sales, the store
\* answering every call
InitVoids ==
  /\ InitStore({"p1", "p2"}, MaxClock, FALSE)
  /\ InitShell("sales") /\ InitSalesPage /\ NoReportsPage /\ NoEarningsPage
NextVoids ==
  \/ CheckoutNext("t1", 1..MaxStock)
  \/ \E sale \in recentSales : voidRecentSale(sale)
SpecVoids == InitVoids /\ [][NextVoids]_vars

\* the Earnings page after its first load of a store of three lines, one a day up to
\* today; then the owner switches the view and the dates without waiting for the
\* fetches under way, MaxInFlight of them at most, the store answering every call
MaxInFlight == 2
RaceDays == {EarningsToday - 1, EarningsToday}

LoadedEarningsPage ==
  /\ viewMode = "today"
  /\ earningsDates = [startDate |-> DayOf(clock) - 7, endDate |-> DayOf(clock)]
  /\ \E data \in OrderedByCreatedAt({r \in tblSales : ~r.cancelled}, TRUE) :
       earningsSales = filteredSales(data, viewMode, earningsDates)
  /\ totalMonthlyOpex = SumSeq(tblOpex)
  /\ \E data \in OrderedByCreatedAt(MonthlyRows, TRUE) :
       LET walk == MonthlyWalk(data, totalMonthlyOpex, 0, NoInstant) IN
         /\ monthlyGrossMargin = walk.runningGrossMargin
         /\ breakEvenDate = walk.breakEvenTimestamp
  /\ opexFetch = FALSE
  /\ monthlyFetch = {}
  /\ earningsFetch = {}
  /\ earningsMounted = TRUE
  /\ timers = {1}
  /\ effectInterval = 1

InitRace ==
  /\ tblProducts = [p \in {"p1"} |-> [qty |-> MaxStock, cost |-> 100, selling_price |-> 500]]
  /\ initialStock = [p \in {"p1"} |-> MaxStock]
  /\ tblSales = {EarningsLine(id, (EarningsToday - 3 + id) * TicksPerDay,
                               (EarningsToday - 3 + id) * TicksPerDay, FALSE) : id \in 1..3}
  /\ tblOpex = <<400>>
  /\ nextUuid = 1
  /\ issued = <<>>
  /\ clock = endOfDay(EarningsToday * TicksPerDay)
  /\ tzWest = FALSE
  /\ storeFaults = FALSE
  /\ InitShell("earnings")
  /\ InitSalesPage
  /\ NoReportsPage
  /\ LoadedEarningsPage

NextRace ==
  \/ \E opex \in monthlyFetch : fetchMonthlySalesReturn(opex)
  \/ \E call \in earningsFetch : fetchEarningsSalesReturn(call)
  \/ \E mode \in {"today", "range"} :
       Cardinality(earningsFetch) < MaxInFlight /\ setViewMode(mode)
  \/ \E startDate \in RaceDays, endDate \in RaceDays :
       /\ startDate <= endDate /\ Cardinality(earningsFetch) < MaxInFlight
       /\ setEarningsDates(startDate, endDate)
  \/ \E interval \in timers :
       Cardinality(earningsFetch) < MaxInFlight /\ EarningsInterval(interval)

SpecRace == InitRace /\ [][NextRace]_vars

---------------------------------------------------------------------------
(* Properties of checkout *)

RECURSIVE SumQty(_)
SumQty(rows) ==
  IF rows = {} THEN 0
  ELSE LET r == CHOOSE x \in rows : TRUE IN r.qty + SumQty(rows \ {r})

AllIdle == \A t \in Terminals : checkout[t].pc = "idle"

\* C1: once two checkouts of quantities a and b of one product have completed, in
\* either order or overlapping on two terminals, its stored stock is
\* max(0, S - a - b), S being the stock it started with.
C1_StockAfterTwoCheckouts ==
  \A p \in DOMAIN tblProducts :
    LET rows == {r \in tblSales : r.product_id = p} IN
      (AllIdle /\ Cardinality({r.transaction_id : r \in rows}) = 2)
        => tblProducts[p].qty = Max(0, initialStock[p] - SumQty(rows))

\* C2: no two distinct transactions carry the same transaction number within one
\* YY-MM prefix, under any interleaving of checkouts from several terminals.
C2_NumbersUnique ==
  \A r1, r2 \in tblSales :
    (r1.transaction_id # r2.transaction_id /\ r1.transaction_number # NoNumber)
      => r1.transaction_number # r2.transaction_number

\* what the specification counts as a valid checkout: a cart, a payment method, a customer
\* type, a payment covering the total, every line within the stock read for it
ValidCheckout(t) ==
  /\ cart[t] # <<>>
  /\ selectedPaymentMethod[t] \in PaymentMethods
  /\ selectedCustomerType[t] \in CustomerTypes
  /\ customerPayment[t] >= CartTotal(cart[t])
  /\ \A i \in 1..Len(cart[t]) : cart[t][i].quantity <= cart[t][i].product.qty

\* the stock still available for the line the modal is about: the product's stock as
\* read, less what other lines of the cart hold of it
AvailableForModal(t) ==
  LET edit == editingCartItem[t]
      p == IF edit # NoItem THEN edit.product ELSE selectedProduct[t]
      others == {i \in 1..Len(cart[t]) :
                   cart[t][i].product.id = p.id /\ edit = NoItem}
  IN p.qty - SumSeq([i \in 1..Len(cart[t]) |-> IF i \in others THEN cart[t][i].quantity ELSE 0])

StoreUntouched ==
  /\ tblSales' = tblSales /\ tblProducts' = tblProducts
  /\ generateTransactionNumber(tblSales', clock', TRUE) = generateTransactionNumber(tblSales, clock, TRUE)

\* C4: a checkout attempt that fails validation (empty cart, no payment method or
\* customer type, payment below the total, a quantity above the available stock)
\* writes nothing: the handler ends at once, no sale line is inserted, no stock is
\* changed, no transaction number is consumed; and the store is only ever written
\* by a checkout that passed validation.
C4_RejectedAttemptWritesNothing ==
  [][\A t \in Terminals :
       /\ (lastEvent'.op = "handleCheckout" /\ lastEvent'.t = t
           /\ lastEvent'.result \in {"rejected", "started"} /\ ~ValidCheckout(t))
            => (lastEvent'.result = "rejected" /\ StoreUntouched /\ cart' = cart
                /\ checkout'[t].pc = "idle" /\ ~isCheckingOut'[t])
       /\ (lastEvent'.op = "handleAddToCart" /\ lastEvent'.t = t /\ lastEvent' # lastEvent
           /\ lastEvent'.arg > AvailableForModal(t))
            => (lastEvent'.result = "insufficient stock" /\ StoreUntouched /\ cart' = cart)
       /\ (~ModalClosed(t) /\ ModalClosed(t)' /\ cart'[t] # cart[t] /\ Len(cart'[t]) >= Len(cart[t]))
            => \A i \in 1..Len(cart'[t]) : cart'[t][i].quantity <= cart'[t][i].product.qty
       /\ (tblSales' # tblSales \/ tblProducts' # tblProducts)
            => \E u \in Terminals : checkout[u].pc \in {"persisting", "adjusting"}
     ]_vars

W4_CheckoutRejectedForPayment ==
  /\ lastEvent = Event("handleCheckout", "t1", 0, "rejected")
  /\ cart["t1"] # <<>> /\ selectedPaymentMethod["t1"] # "" /\ selectedCustomerType["t1"] # ""
  /\ customerPayment["t1"] < CartTotal(cart["t1"])
  /\ tblSales # {}

\* C5: a successful checkout writes exactly one sale line per cart entry, all with the
\* same transaction id, the same transaction number and the same report timestamp.
C5_LinesShareIdNumberTimestamp ==
  /\ \A t \in Terminals :
       checkout[t].pc = "adjusting" =>
         /\ Len(checkout[t].saleData) = Len(checkout[t].cart)
         /\ \A i \in 1..Len(checkout[t].cart) :
              /\ checkout[t].saleData[i] \in tblSales
              /\ checkout[t].saleData[i].product_id = checkout[t].cart[i].product.id
              /\ checkout[t].saleData[i].qty = checkout[t].cart[i].quantity
              /\ checkout[t].saleData[i].transaction_id = checkout[t].transactionId
  /\ \A r1, r2 \in tblSales :
       r1.transaction_id = r2.transaction_id =>
         /\ r1.transaction_number = r2.transaction_number
         /\ r1.earnings_datetime = r2.earnings_datetime

\* C3: checkouts that do not overlap, with report edits and archive deletions between
\* them, get strictly increasing transaction numbers within one YY-MM prefix, so
\* no number is issued twice.
C3_SequentialNumbersIncrease ==
  \A i, j \in 1..Len(issued) :
    (i < j /\ issued[i].ym = issued[j].ym) => StrLess(issued[i].digits, issued[j].digits)

\* C15: whatever the interleaving of checkouts, failed stock decrements, voids of
\* recent sales (restore_inventory) and inventory edits, the stored stock of every
\* product is >= 0.
C15_StockNeverNegative == \A p \in DOMAIN tblProducts : tblProducts[p].qty >= 0

\* a void has put a quantity back on a stock no decrement had lowered: the stock is
\* above every quantity the inventory form wrote
W15_RestoredOverFullStock ==
  /\ lastEvent.op = "voidRecentSale" /\ lastEvent.result = "restored"
  /\ \E p \in DOMAIN tblProducts : tblProducts[p].qty > 1
  /\ \E r \in tblSales : r.id = lastEvent.arg /\ r.cancelled

\* what a line keeps of the sale
LineSnapshot(r) == [qty |-> r.qty, cost |-> r.cost, selling_price |-> r.selling_price,
                    total |-> r.total]

\* C16: a line is created with total = quantity x price snapshot, and no later step
\* (an inventory edit of price or cost, the deletion of the product, an edit on the
\* Reports page, another checkout) changes its total, quantity, cost snapshot or
\* price snapshot.
C16_LineSnapshotsFixed ==
  [][\A r \in tblSales' :
       IF \E o \in tblSales : o.id = r.id
       THEN \A o \in tblSales : o.id = r.id => LineSnapshot(r) = LineSnapshot(o)
       ELSE r.total = r.qty * r.selling_price]_vars

\* a line sold at a price the product no longer has, after an edit on the Reports page
W16_EditedAfterPriceChange ==
  /\ lastEvent.op = "handleUpdateTransaction" /\ lastEvent.result = "Updated successfully"
  /\ \E r \in tblSales :
       /\ r.product_id \in DOMAIN tblProducts
       /\ tblProducts[r.product_id].selling_price # r.selling_price
       /\ r.dine_in_takeout = "takeout"
       /\ r.total = r.qty * r.selling_price

\* C19: for a logged-in cashier, whatever the navigation, the only page rendered is
\* Sales: never Reports, Inventory, Earnings, OPEX or the settings.
C19_CashierSeesSalesOnly == isCashier => RenderedPage = "sales"

\* the quantity of product p that transaction tx sold
SoldBy(tx, p) == SumQty({r \in tblSales : r.transaction_id = tx /\ r.product_id = p})

\* C21: each terminal's cart is held to the stock S its terminal read, and nothing
\* after that reading holds a checkout back: every step of a running checkout can be
\* taken whatever the other terminal has sold, so two carts validated against the
\* same S both complete and the quantity sold can exceed S.
C21_EachCartHeldToStockRead ==
  /\ \A p \in DOMAIN tblProducts, r \in tblSales : SoldBy(r.transaction_id, p) <= initialStock[p]
  /\ \A t \in Terminals :
       /\ checkout[t].pc = "allocating" => ENABLED generateTransactionNumberReturn(t)
       /\ checkout[t].pc = "persisting" => ENABLED insertSales(t)
       /\ checkout[t].pc = "adjusting" => ENABLED deductInventory(t)

\* both terminals have inserted their lines for carts read at the full stock, before
\* either has decremented: together the lines sell more than the stock
W21_BothInsertedOverStock ==
  /\ \A t \in Terminals :
       /\ checkout[t].pc = "adjusting" /\ checkout[t].idx = 1
       /\ checkout[t].cart[1].product.qty = initialStock["p1"]
  /\ tblProducts["p1"].qty = initialStock["p1"]
  /\ SumQty({r \in tblSales : r.product_id = "p1"}) > initialStock["p1"]
  /\ Cardinality({r.transaction_id : r \in tblSales}) = 2

RECURSIVE MaxOf(_)
MaxOf(ns) == IF ns = {} THEN 0 ELSE LET n == CHOOSE x \in ns : TRUE IN Max(n, MaxOf(ns \ {n}))

\* the suffix, read as a number, of the numerically largest number stored under a
\* prefix; 0 when there is none
LargestSuffix(rows, yearMonth) == MaxOf({ParseIntOr0(d) : d \in NumbersLike(rows, yearMonth)})

\* C22: the number allocated is the current YY-MM prefix with N = 1 + the suffix of the
\* numerically largest number stored under that prefix (0 when there is none),
\* zero-padded to 5 digits; numbers under another prefix have no influence, so the
\* first number of a month is 00001.
C22_NextAfterLargestOfPrefix ==
  \A t \in Terminals :
    checkout[t].pc = "persisting" =>
      checkout[t].transactionNumber =
        IssuedNumber(MonthOf(clock), LargestSuffix(tblSales, MonthOf(clock)) + 1)

\* C25: an order type is required only while the dine-in/takeout setting is enabled;
\* with the setting disabled, a cart with a payment method, a customer type and a
\* sufficient payment but no order type passes the validation of checkout, and its
\* lines are stored with no order type.
C25_OrderTypeOptionalWhenDisabled ==
  \A t \in Terminals :
    (/\ ~dineInTakeoutEnabled
     /\ Len(cart[t]) > 0
     /\ selectedPaymentMethod[t] # ""
     /\ selectedCustomerType[t] # ""
     /\ paymentAmount(t) >= cartTotal(t)
     /\ selectedDineInTakeout[t] = NULL) => canCheckout(t)

\* the store holds a line of transaction tx
Inserted(tx) == \E r \in tblSales : r.transaction_id = tx

\* C23: within one checkout the steps come in the order validate, allocate the
\* transaction id and number, insert the lines, decrement the stock, complete: the
\* handler starts only on a cart that passes the validation, no line is inserted
\* before the number is allocated, no stock is decremented before the insert has
\* succeeded, and the cart is cleared only once every decrement has been attempted.
C23_CheckoutStepsInOrder ==
  [][\A t \in Terminals :
       LET c == checkout[t] IN
       /\ (~isCheckingOut[t] /\ isCheckingOut'[t]) =>
            canCheckout(t) /\ tblSales' = tblSales /\ tblProducts' = tblProducts
       /\ (\E r \in tblSales' \ tblSales : r.transaction_id = c.transactionId) =>
            /\ c.transactionNumber # NoNumber
            /\ \A r \in tblSales' \ tblSales : r.transaction_number = c.transactionNumber
            /\ tblProducts' = tblProducts
       /\ (isCheckingOut[t] /\ tblProducts' # tblProducts) =>
            \A i \in 1..Len(c.cart) : \E r \in tblSales :
               r.transaction_id = c.transactionId /\ r.product_id = c.cart[i].product.id
       /\ (isCheckingOut[t] /\ cart[t] # <<>> /\ cart'[t] = <<>>) =>
            Inserted(c.transactionId) /\ c.idx = Len(c.cart)]_vars

\* a checkout of two lines has completed, both stocks lowered
W23_TwoLinesCompleted ==
  /\ lastEvent.op = "handleCheckout" /\ lastEvent.result = "completed"
  /\ \A p \in {"p1", "p2"} : (\E r \in tblSales : r.product_id = p)
                             /\ tblProducts[p].qty < initialStock[p]

\* the inventory loop of terminal t takes a turn that leaves the stock as it was
\* although the loop has another quantity to write: the update has failed
DecrementFailed(t) ==
  /\ checkout[t].pc = "adjusting" /\ checkout'[t] # checkout[t]
  /\ tblProducts' = tblProducts
  /\ LET item == checkout[t].cart[checkout[t].idx] IN
       /\ item.product.id \in DOMAIN tblProducts
       /\ DeductedQty(item) # tblProducts[item.product.id].qty

\* C24: when the stock decrement of a line fails after the insert has succeeded, the
\* inserted lines stay, the decrements of the remaining lines are still attempted,
\* and the checkout ends as completed with the cart cleared: nothing is rolled back
\* and the handler does not end as failed.
C24_FailedDecrementGoesOn ==
  [][\A t \in Terminals : DecrementFailed(t) =>
       /\ tblSales' = tblSales
       /\ Inserted(checkout[t].transactionId)
       /\ lastEvent'.result # "failed"
       /\ IF checkout[t].idx < Len(checkout[t].cart)
          THEN /\ checkout'[t].pc = "adjusting"
               /\ checkout'[t].idx = checkout[t].idx + 1
               /\ isCheckingOut'[t] /\ cart'[t] = cart[t]
          ELSE /\ lastEvent' = Event("handleCheckout", t, 0, "completed")
               /\ cart'[t] = <<>> /\ ~isCheckingOut'[t]]_vars

\* a two-line checkout has completed: the stock of its first line is what it was (the
\* decrement has failed), the stock of its second line is lowered
W24_SecondLineDeductedAfterFailure ==
  /\ lastEvent.op = "handleCheckout" /\ lastEvent.result = "completed"
  /\ cart["t1"] = <<>>
  /\ \E r1, r2 \in tblSales :
       /\ r1.transaction_id = r2.transaction_id /\ r1.id < r2.id
       /\ tblProducts[r1.product_id].qty = initialStock[r1.product_id]
       /\ tblProducts[r2.product_id].qty < initialStock[r2.product_id]

\* what the other entries of cart c hold of the product of entry i
ReservedElsewhere(c, i) ==
  SumSeq([j \in 1..Len(c) |->
            IF j # i /\ c[j].product.id = c[i].product.id THEN c[j].quantity ELSE 0])

\* C26: whatever the sequence of add, edit-quantity, remove and clear, the cart holds
\* at most one entry per product, every quantity is a positive integer, and every
\* quantity is at most the stock of the entry's product less what the rest of the
\* cart holds of that product.
C26_CartWithinStock ==
  \A t \in Terminals :
    LET c == cart[t] IN
    /\ \A i, j \in 1..Len(c) : c[i].product.id = c[j].product.id => i = j
    /\ \A i \in 1..Len(c) : c[i].quantity \in Nat \ {0}
    /\ \A i \in 1..Len(c) : c[i].quantity <= c[i].product.qty - ReservedElsewhere(c, i)

\* a cart of two products, one taken whole, after the modal has refused a quantity
\* above the stock
W26_FullCartAfterRefusal ==
  /\ Len(cart["t1"]) = 2
  /\ \E i \in 1..2 : cart["t1"][i].quantity = cart["t1"][i].product.qty
  /\ lastEvent.op = "handleAddToCart" /\ lastEvent.result = "insufficient stock"

\* C27: a checkout followed by the void of its recent-sale entry leaves the stock of
\* every product at its value before the checkout, for a cart of one line and for a
\* cart of several: here for the first checkout of the store, whose stock before is
\* the initial one.
C27_VoidRestoresEveryLine ==
  (/\ lastEvent.op = "voidRecentSale" /\ lastEvent.result = "restored"
   /\ Cardinality({r.transaction_id : r \in tblSales}) = 1
   /\ \A t \in Terminals : checkout[t].pc = "idle")
    => \A p \in DOMAIN tblProducts : tblProducts[p].qty = initialStock[p]

\* the insert of terminal t's checkout has failed in this step
InsertFailed(t) == checkout[t].pc = "persisting" /\ checkout'[t].pc = "idle"

\* C28: when the insert of the sale lines fails, the checkout ends as failed with no
\* effect: no stock is changed, no line is stored, no recent sale is registered, the
\* cart and the payment, customer and order selections are kept, and the in-progress
\* flag is reset, so that the same cart can be checked out again.
C28_FailedInsertLeavesAllAsItWas ==
  [][\A t \in Terminals : InsertFailed(t) =>
       /\ lastEvent' = Event("handleCheckout", t, 0, "failed")
       /\ tblProducts' = tblProducts /\ tblSales' = tblSales
       /\ \A p \in DOMAIN tblProducts : tblProducts[p].qty = initialStock[p] \/ tblSales # {}
       /\ recentSales' = recentSales
       /\ cart'[t] = checkout[t].cart
       /\ formVars' = formVars
       /\ ~isCheckingOut'[t]
       /\ canCheckout(t)' /\ Ready(t)' /\ ModalClosed(t)']_vars

\* the insert of a two-line cart has just failed, nothing ever stored
W28_TwoLineInsertFailed ==
  /\ lastEvent = Event("handleCheckout", "t1", 0, "failed")
  /\ Len(cart["t1"]) = 2 /\ canCheckout("t1")
  /\ tblSales = {} /\ recentSales = {}
  /\ \A p \in DOMAIN tblProducts : tblProducts[p].qty = initialStock[p]

---------------------------------------------------------------------------
(* Properties of the Reports page *)

LineKey(line) == IF line.transaction_id # 0 THEN line.transaction_id ELSE line.id
LinesOf(data, k) == {i \in 1..Len(data) : LineKey(data[i]) = k}
EarliestCapture(data, k) ==
  CHOOSE ts \in {data[i].created_at : i \in LinesOf(data, k)} :
    \A i \in LinesOf(data, k) : ts <= data[i].created_at

GroupingHolds(data, txs) ==
  /\ \A i \in 1..Len(data) :
       Cardinality({g \in 1..Len(txs) :
                      \E j \in 1..Len(txs[g].items) : txs[g].items[j].id = data[i].id}) = 1
  /\ SumSeq([g \in 1..Len(txs) |-> Len(txs[g].items)]) = Len(data)
  /\ \A g \in 1..Len(txs) :
       /\ \A j \in 1..Len(txs[g].items) :
            \E i \in LinesOf(data, txs[g].id) : data[i].id = txs[g].items[j].id
       /\ txs[g].total =
            SumSeq([i \in 1..Len(data) |-> IF i \in LinesOf(data, txs[g].id) THEN data[i].total ELSE 0])
  /\ \A g, h \in 1..Len(txs) :
       g < h => /\ txs[g].id # txs[h].id
                /\ EarliestCapture(data, txs[g].id) >= EarliestCapture(data, txs[h].id)

\* the four fields the Reports page edits, as a line or a group holds them
EditedFields(x) == <<x.payment_method, x.customer_type, x.dine_in_takeout, x.earnings_datetime>>

EditSucceeded(event) ==
  \/ event.op = "handleUpdateTransaction" /\ event.result = "Updated successfully"
  \/ event.op = "handleUpdateEarningsDateTime" /\ event.result = "Report Date updated"

C10_GroupingOfLines ==
  \A data \in Perms(ReportRows) : GroupingHolds(data, sortedTransactions(data))

W10_ThreeGroupsShown ==
  /\ ~reportFetch
  /\ Len(transactions) = 3
  /\ Len(reportSales) = 4
  /\ \E g \in 1..3 : Len(transactions[g].items) = 2 /\ transactions[g].total = 5
  /\ \E g \in 1..3 : transactions[g].id = 31
  /\ transactions[1].created_at > transactions[3].created_at
  /\ GroupingHolds(reportSales, transactions)

\* the lines of the store that belong to the transactions ticked
LinesOfSelected == {r \in tblSales : LineKey(r) \in selectedTransactions}

ArchiveSucceeded(event) ==
  event.op = "handleArchive" /\ event.result = "Reports archived and downloaded"

\* C12: a successful archive deletes from the store exactly the lines of the
\* transactions ticked, and the file it downloads has one row per transaction ticked,
\* however the selection was built (ticks, select-all, changes of the date range).
C12_ArchiveDeletesSelection ==
  [][(archiveRun.pc = "deleting" /\ ArchiveSucceeded(lastEvent')) =>
       /\ tblSales' = tblSales \ LinesOfSelected
       /\ Len(download.rows) = Cardinality(selectedTransactions)]_vars

DeleteFailed(event) ==
  event.op = "handleArchive" /\ event.arg = 2 /\ event.result = archiveCatch

\* C13: in every archive run the file is downloaded before the delete is sent; if the
\* delete fails, no line has left the store, the file exists, and the selection and
\* the list are as they were, so that a retry exports and deletes the same.
C13_ExportBeforeDelete ==
  /\ [](archiveRun.pc = "deleting" => (download.made /\ download.rows = csvRows))
  /\ [][(archiveRun.pc = "idle" /\ archiveRun'.pc = "deleting") => tblSales' = tblSales]_vars
  /\ [][(archiveRun.pc = "deleting" /\ DeleteFailed(lastEvent')) =>
         /\ tblSales' = tblSales
         /\ download.made /\ download' = download
         /\ selectedTransactions' = selectedTransactions /\ selectedTransactions' # {}
         /\ csvRows' = download'.rows
         /\ salesToArchive' = archiveRun.ids]_vars

W13_DeleteFailedAfterExport ==
  /\ DeleteFailed(lastEvent)
  /\ ReportsReady
  /\ Len(download.rows) = 2 /\ Cardinality(selectedTransactions) = 2
  /\ Cardinality(LinesOfSelected) = 3

\* C14: an archive whose delete fails after the download ends in an outcome that
\* differs from the outcome of an archive that failed before the download.
C14_FailuresDistinguishable ==
  \A e1, e2 \in archiveOutcomes : e1.thrownBy # e2.thrownBy => e1.toast # e2.toast

---------------------------------------------------------------------------
(* Properties of the Earnings page *)

\* the live view is active: the page is mounted and shows today
LiveViewActive == earningsMounted /\ viewMode = "today"

\* C20: the 30-second refresh runs only while the Earnings page is mounted in today
\* mode: an interval exists only then, at most one exists at any time, and no
\* interval fires a fetch once the page is left or switched to the range view.
C20_PollingOnlyWhileLive ==
  /\ [](timers # {} => LiveViewActive)
  /\ [](Cardinality(timers) <= 1)
  /\ [][lastEvent'.op = "setInterval" => (LiveViewActive /\ LiveViewActive')]_vars

\* the page, opened with its interval running, has been left: no interval remains
W20_LeftWithoutInterval ==
  /\ ~earningsMounted
  /\ timers = {} /\ effectInterval = 0
  /\ earningsFetch = {} /\ monthlyFetch = {}

RECURSIVE SumMargin(_)
SumMargin(rows) ==
  IF rows = {} THEN 0
  ELSE LET r == CHOOSE x \in rows : TRUE
       IN (r.total - r.cost * r.qty) + SumMargin(rows \ {r})

RECURSIVE SumRevenue(_)
SumRevenue(rows) ==
  IF rows = {} THEN 0
  ELSE LET r == CHOOSE x \in rows : TRUE IN r.total + SumRevenue(rows \ {r})

RECURSIVE SumItemCost(_)
SumItemCost(rows) ==
  IF rows = {} THEN 0
  ELSE LET r == CHOOSE x \in rows : TRUE IN r.cost * r.qty + SumItemCost(rows \ {r})

\* the Earnings page has loaded the OPEX target of the store
OpexLoaded == EarningsSettled /\ totalMonthlyOpex = SumSeq(tblOpex)

\* C6: for month-to-date gross margin G and OPEX target T >= 0, the net profit of the
\* summary is never negative, is 0 when G < T and is G - T when G >= T, T = 0 included.
C6_NetProfitOfSummary ==
  OpexLoaded =>
    /\ netProfit >= 0
    /\ monthlyGrossMargin < totalMonthlyOpex => netProfit = 0
    /\ monthlyGrossMargin >= totalMonthlyOpex => netProfit = monthlyGrossMargin - totalMonthlyOpex

\* the window the page is showing, in local days
ShownWindow ==
  IF viewMode = "today"
  THEN [from |-> DayOf(clock) * TicksPerDay, to |-> (DayOf(clock) + 1) * TicksPerDay - 1]
  ELSE [from |-> earningsDates.startDate * TicksPerDay,
        to |-> (earningsDates.endDate + 1) * TicksPerDay - 1]

LinesReportedIn(from, to) ==
  {r \in tblSales : ~r.cancelled /\ r.earnings_datetime >= from /\ r.earnings_datetime <= to}

\* the gross margin the page would show for the range from startDate to endDate
RangeGrossMargin(startDate, endDate) ==
  LET data == CHOOSE q \in OrderedByCreatedAt({r \in tblSales : ~r.cancelled}, TRUE) : TRUE
      shown == filteredSales(data, "range", [startDate |-> startDate, endDate |-> endDate])
  IN SumSeq([i \in 1..Len(shown) |-> shown[i].total - shown[i].cost * shown[i].qty])

\* C7: the gross margin shown for a window is the revenue less the item cost of the
\* lines whose report timestamp falls in the window, and the gross margins of the
\* two parts of a window split in two add up to the gross margin of the window.
C7_GrossMarginOfWindow ==
  OpexLoaded =>
    /\ totalRevenue = SumRevenue(LinesReportedIn(ShownWindow.from, ShownWindow.to))
    /\ totalItemExpenses = SumItemCost(LinesReportedIn(ShownWindow.from, ShownWindow.to))
    /\ grossMargin = totalRevenue - totalItemExpenses
    /\ \A d \in earningsDates.startDate..(earningsDates.endDate - 1) :
         RangeGrossMargin(earningsDates.startDate, d)
           + RangeGrossMargin(d + 1, earningsDates.endDate)
           = RangeGrossMargin(earningsDates.startDate, earningsDates.endDate)

\* the lines of the current calendar month by report timestamp, and the margin they
\* have accumulated by an instant
MonthLinesReported ==
  {r \in tblSales : ~r.cancelled /\ MonthOf(r.earnings_datetime) = MonthOf(clock)}
MarginReportedBy(ts) == SumMargin({r \in MonthLinesReported : r.earnings_datetime <= ts})
ReachingInstants ==
  {r.earnings_datetime : r \in {x \in MonthLinesReported :
                                  MarginReportedBy(x.earnings_datetime) >= totalMonthlyOpex}}
BreakEvenInstant ==
  IF totalMonthlyOpex = 0 \/ ReachingInstants = {} THEN NoInstant
  ELSE CHOOSE ts \in ReachingInstants : \A other \in ReachingInstants : ts <= other

\* the break-even date shown is the one a walk with the loaded target produces
BreakEvenShownIsCurrent ==
  /\ OpexLoaded
  /\ \E data \in OrderedByCreatedAt(MonthlyRows, TRUE) :
       breakEvenDate = MonthlyWalk(data, totalMonthlyOpex, 0, NoInstant).breakEvenTimestamp

\* C8: the break-even tracker walks the non-cancelled lines of the current calendar
\* month in ascending order of report timestamp; the instant it reports is the report
\* timestamp of the first line at which the running gross margin reaches the target,
\* and null when the target is 0 or is never reached.
C8_BreakEvenAtReportTimestamp ==
  BreakEvenShownIsCurrent => breakEvenDate = BreakEvenInstant

\* the cumulative gross margin of the lines displayed, through a day of the chart
MarginThrough(day) ==
  SumSeq([i \in 1..Len(earningsSales) |->
            IF /\ DayOf(earningsSales[i].earnings_datetime) >= earningsDates.startDate
               /\ DayOf(earningsSales[i].earnings_datetime) <= day
            THEN earningsSales[i].total - earningsSales[i].cost * earningsSales[i].qty
            ELSE 0])

ThreeDaysOf400 ==
  /\ viewMode = "range"
  /\ totalMonthlyOpex = 1000
  /\ earningsDates.endDate = earningsDates.startDate + 2
  /\ \A k \in 1..3 : MarginThrough(ChartDays[k]) = 400 * k

\* C9: the k-th point of the chart's remaining-OPEX series is max(0, T - G_k) and the
\* k-th point of its net-profit series is G_k - T when G_k > T and 0 otherwise, G_k
\* being the cumulative gross margin through point k; with T = 1000 and three
\* contributions of 400 the series are 600, 200, 0 and 0, 0, 200, and the tracker
\* breaks even at the third sale.
C9_ChartSeries ==
  /\ viewMode = "range" =>
       LET chart == getLineChartData IN
         /\ Len(chart.remainingOpexByDay) = Len(ChartDays)
         /\ Len(chart.profitByDay) = Len(ChartDays)
         /\ \A k \in 1..Len(ChartDays) :
              LET G == MarginThrough(ChartDays[k]) IN
                /\ chart.remainingOpexByDay[k] = Max(0, totalMonthlyOpex - G)
                /\ chart.profitByDay[k] = IF G > totalMonthlyOpex THEN G - totalMonthlyOpex ELSE 0
  /\ ThreeDaysOf400 =>
       /\ getLineChartData.remainingOpexByDay = <<600, 200, 0>>
       /\ getLineChartData.profitByDay = <<0, 0, 200>>
  /\ \A data \in OrderedByCreatedAt(MonthlyRows, TRUE) :
       (Len(data) = 3 /\ \A i \in 1..3 : data[i].total - data[i].cost * data[i].qty = 400)
         => /\ MonthlyWalk(data, 1000, 0, NoInstant).breakEvenTimestamp = data[3].created_at
            /\ MonthlyWalk(data, 1000, 0, NoInstant).runningGrossMargin = 1200

W9_ThreeDaysOf400Charted ==
  /\ EarningsSettled
  /\ ThreeDaysOf400
  /\ Len(earningsSales) = 3
  /\ getLineChartData.remainingOpexByDay = <<600, 200, 0>>
  /\ getLineChartData.profitByDay = <<0, 0, 200>>
  /\ breakEvenDate = EarningsToday * TicksPerDay
  /\ monthlyGrossMargin = 1200

\* the ids of a sequence of lines
IdsOf(lines) == {lines[i].id : i \in 1..Len(lines)}

\* C17: the day view, the range view and the month-to-date tracker each take exactly
\* the non-cancelled lines whose report timestamp lies in their window, never the
\* capture timestamp, so a line whose report timestamp was edited into or out of a
\* window is in or out of all three alike. (Stated where local time is not behind
\* UTC, so that the window typed is the window meant.)
C17_ViewsSelectByReportTimestamp ==
  (OpexLoaded /\ ~tzWest) =>
    /\ IdsOf(earningsSales) = {r.id : r \in LinesReportedIn(ShownWindow.from, ShownWindow.to)}
    /\ Len(earningsSales) = Cardinality(IdsOf(earningsSales))
    /\ monthlyGrossMargin = SumMargin(MonthLinesReported)

\* the gross margin of the store's lines reported from the start of a day's calendar
\* month through that day
MonthMarginThrough(day) ==
  SumMargin(LinesReportedIn(MonthOfDay(day) * DaysPerMonth * TicksPerDay,
                            (day + 1) * TicksPerDay - 1))

\* C18: in the range chart the running gross margin behind a day's remaining-OPEX and
\* net-profit points is the gross margin from the start of that day's calendar month
\* through that day, not from the start of the range: a range that starts after the
\* target was covered shows remaining OPEX 0 from its first day. (Stated for a range
\* inside one calendar month, where local time is not behind UTC.)
C18_ChartCarriesMonthMargin ==
  (/\ OpexLoaded /\ ~tzWest /\ viewMode = "range"
   /\ MonthOfDay(earningsDates.startDate) = MonthOfDay(earningsDates.endDate)) =>
    \A k \in 1..Len(ChartDays) :
      LET G == MonthMarginThrough(ChartDays[k]) IN
        /\ getLineChartData.remainingOpexByDay[k] = Max(0, totalMonthlyOpex - G)
        /\ getLineChartData.profitByDay[k] = IF G > totalMonthlyOpex THEN G - totalMonthlyOpex ELSE 0

\* C29: whenever handleUpdateTransaction or handleUpdateEarningsDateTime reports
\* success for a transaction shown, the value stored for the edited field (the order
\* type, the report timestamp) on every line of the group is the value the page now
\* shows, also for a group keyed by the id of a line that has no transaction id.
C29_SuccessMeansStored ==
  \A k \in 1..Len(transactions) :
    LET tx == transactions[k] IN
    /\ lastEvent = Event("handleUpdateTransaction", "", tx.id, "Updated successfully") =>
         \A r \in tblSales : LineKey(r) = tx.id => r.dine_in_takeout = tx.dine_in_takeout
    /\ lastEvent = Event("handleUpdateEarningsDateTime", "", tx.id, "Report Date updated") =>
         \A r \in tblSales : LineKey(r) = tx.id => r.earnings_datetime = tx.earnings_datetime

\* C30: once every fetchSales under way has answered, the lines displayed are those
\* of the view mode and date range now selected: the answer of an earlier request
\* never replaces the result of a later one.
C30_LastSelectionShown ==
  earningsFetch = {} =>
    IdsOf(earningsSales) = {r.id : r \in LinesReportedIn(ShownWindow.from, ShownWindow.to)}

====
